---- MODULE Spec2Model ----
(***************************************************************************)
(* Job admission and dispatch of the scrape API                            *)
(* (apps/api/src/services/queue-jobs.ts): addScrapeJob (single),           *)
(* addScrapeJobs (bulk), the concurrency ledger they read and write, the   *)
(* worker queue and the deferred area.                                     *)
(*                                                                         *)
(* Every await of the source is a suspension point, so every handler is    *)
(* cut into one action per awaited call; the admitters (API processes)     *)
(* interleave at these points.                                             *)
(***************************************************************************)
EXTENDS Integers, Sequences, FiniteSets, TLC

(* ---------------------------- bounds ---------------------------------- *)
MaxJobs == 3           \* job ids handed out in one behaviour
MaxBatch == 2          \* longest input of one bulk submission
MaxTicks == 1          \* clock advances in one behaviour

(* ------------------------ program constants --------------------------- *)
ActiveTTL == 60000           \* 60 * 1000, TTL of an active entry
DefaultConcurrency == 2      \* ?.concurrency ?? 2
DefaultHold == 60000         \* scrapeOptions?.timeout ?? (60 * 1000)

ResendWindowOneWeek == 7 * 24 * 60 * 60 * 1000

ResendWindow == 15 * 24 * 60 * 60 * 1000   \* 15 days
TickMs == ActiveTTL          \* size of one clock advance
Procs == {"p1", "p2"}        \* admitters (API processes) that may run concurrently
Teams == {"t1", "t2"}
CrawlIds == {"c1", "c2"}
NoCrawl == "none"

VARIABLES
  now,          \* wall clock (Date.now()), ms
  crawlStore,   \* crawl records read by getCrawl
  acuc,         \* tenant records read by getACUCTeam
  active,       \* ledger: per tenant, active entries <<job id, expires_at>>
  crawlActive,  \* ledger: per crawl, active entries <<job id, expires_at>>
  deferred,     \* ledger: per tenant, the concurrency queue
  bull,         \* the worker queue (BullMQ): ids of the jobs enqueued
  job,          \* the payload (WebScraperOptions) of every job id handed out
  nextId,       \* next free job id
  ticks,        \* clock advances so far
  proc,         \* per admitter: position and locals of the running call
  lastSent,     \* notification gate: per tenant, time of the last event or Never
  sendQ,        \* notification requests handed to the (un-awaited) sender
  emitted,      \* per tenant, concurrency-limit-reached events emitted
  dom,          \* what callers submit in this behaviour (fixed by Init)
  errlog,       \* errors written to the log by the sender's catch handler
  wait,         \* per waiter: position and locals of its waitForJob call
  queueJob,     \* the worker queue's record of every job: state and result
  blob,         \* the blob store (GCS): per job id, the documents stored
  mirror,       \* per job id: the A/B mirror request started for it, if any
  lookup,       \* the call of scrapeURLWithIndex: rows read, position, outcome
  hist          \* per job: what the calls did with it (observation only)

\* the state of the wait path
waitVars == <<wait, queueJob, blob>>

vars == <<now, crawlStore, acuc, active, crawlActive, deferred, bull, job,
          nextId, ticks, proc, lastSent, sendQ, emitted, dom, mirror, lookup,
          errlog, waitVars, hist>>

(* ------------------------- sequence helpers --------------------------- *)
Range(s) == {s[i] : i \in DOMAIN s}

Min(a, b) == IF a < b THEN a ELSE b

Max(a, b) == IF a > b THEN a ELSE b

\* Array.prototype.slice(from, to) on 0-based indices
Slice(s, from, to) ==
  LET f == Min(Max(from, 0), Len(s))
      t == Min(Max(to, f), Len(s))
  IN  [i \in 1..(t - f) |-> s[f + i]]

(* ----------------------- inputs of a submission ----------------------- *)
\* scrapeOptions?.timeout === undefined
NoTimeout == 0 - 1

\* a payload as the caller hands it in (WebScraperOptions, the fields read here)
Payloads(teams, crawls, cos, exts, prios) ==
  { [team_id |-> t, crawl_id |-> c, crawlerOptions |-> co, is_extract |-> e[1],
     from_extract |-> e[2], priority |-> pr, concurrencyLimited |-> FALSE,
     timeout |-> NoTimeout]
    : t \in teams, c \in crawls, co \in cos, e \in exts, pr \in prios }

NoJob == [team_id |-> "", crawl_id |-> NoCrawl, crawlerOptions |-> "absent",
          is_extract |-> FALSE, from_extract |-> FALSE, priority |-> 0,
          concurrencyLimited |-> FALSE, timeout |-> NoTimeout]

\* the payloads pls, each with every scrapeOptions.timeout of ts
WithTimeout(pls, ts) == {[pl EXCEPT !.timeout = t] : pl \in pls, t \in ts}

\* observation of one job: how it was submitted, the verdict of its call, what
\* the call returned, the ledger writes made for it, whether its call read the
\* tenant's active set, and where its call last read the crawl record
NoHist == [verdict |-> "none", ret |-> "pending", pushes |-> 0, crawlPushes |-> 0,
           direct |-> FALSE, bulk |-> FALSE, tenantRead |-> FALSE,
           crawlRead |-> "none", failedAt |-> "none"]

\* locals of one call; a call that has returned leaves IdleProc behind
IdleProc == [pc |-> "idle", kind |-> "none", id |-> 0, direct |-> FALSE,
             limited |-> "null", now |-> 0, maxInner |-> 0, maxOuter |-> 0,
             jobs |-> <<>>, teams |-> <<>>, team |-> "", buckets |-> <<>>,
             potential |-> <<>>, forced |-> <<>>, toCQ |-> <<>>, toBull |-> <<>>,
             stage |-> <<>>, failed |-> FALSE]

Never == 0 - 1

(* ------------------------ the concurrency ledger ---------------------- *)
\* entries with expires_at > now
LiveEntries(entries, t) == {e \in entries : e[2] > t}

\* clean-expired: removes entries with expires_at <= now
CleanOld(entries, t) == {e \in entries : e[2] > t}

\* push-active: a repeated job id refreshes the expiry
PushActive(entries, id, ttl, t) ==
  {e \in entries : e[1] # id} \cup {<<id, t + ttl>>}

(* --------------------------- pure decisions --------------------------- *)
\* !crawl ? null : delay === undefined && maxConcurrency === undefined ? null
\*   : crawl.maxConcurrency ?? 1     (bounded = the limit is not null)
CrawlBounded(c) == c.exists /\ (c.delay \/ c.hasMax)

CrawlLimitDelayFirst(c) == IF c.delay THEN 1 ELSE c.maxConcurrency

CrawlLimit(c) == IF c.hasMax THEN c.maxConcurrency ELSE 1

FreeSlotsOffByOne(limit, used) == Max(limit - used + 1, 0)

\* Math.max(limit - used, 0)
FreeSlots(limit, used) == Max(limit - used, 0)

CrawlBlockedWhenOver(crawl, used) == CrawlBounded(crawl) /\ used > CrawlLimit(crawl)

\* lines 148-153: a bounded crawl without a free slot blocks the job
CrawlBlocked(crawl, used) ==
  CrawlBounded(crawl) /\ FreeSlots(CrawlLimit(crawl), used) = 0

TeamConcurrencyCrawlMode(rec, extract) ==
  IF ~rec.exists THEN DefaultConcurrency ELSE rec.crawl

\* lines 159, 310: (await getACUCTeam(team, false, true, mode))?.concurrency ?? 2
TeamConcurrency(rec, extract) ==
  IF ~rec.exists THEN DefaultConcurrency
  ELSE IF extract THEN rec.extract ELSE rec.crawl

TenantVerdictOffByOne(count, limit) == IF count > limit THEN "yes" ELSE "no"

\* currentActiveConcurrency >= maxConcurrency ? "yes" : "no"
TenantVerdict(count, limit) == IF count >= limit THEN "yes" ELSE "no"

\* crawlerOptions?.delay || sc?.maxConcurrency   (line 113: the job's own payload
\* and the stored crawl decide whether a crawl active entry is written)
WritesCrawlEntry(pl, sc) ==
  pl.crawlerOptions = "delay" \/ (sc.exists /\ sc.hasMax /\ sc.maxConcurrency # 0)

\* push-deferred: ordered by priority asc, then enqueue order; a repeated job id
\* replaces the prior entry
PushDeferred(q, e) ==
  LET rest == SelectSeq(q, LAMBDA x : x.id # e.id)
      before == SelectSeq(rest, LAMBDA x : x.priority <= e.priority)
      after == SelectSeq(rest, LAMBDA x : x.priority > e.priority)
  IN  before \o <<e>> \o after

DeferredEntryTimedCrawl(id, pl) ==
  [id |-> id, data |-> pl, opts |-> [priority |-> pl.priority, jobId |-> id],
   priority |-> pl.priority, holdForever |-> FALSE,
   holdMs |-> IF pl.timeout = NoTimeout THEN DefaultHold ELSE pl.timeout]

\* the entry _addScrapeJobToConcurrencyQueue builds (id, data, opts with the
\* priority and the job id, priority), and its hold time:
\* crawl_id ? Infinity : (scrapeOptions?.timeout ?? 60 * 1000)
DeferredEntry(id, pl) ==
  [id |-> id, data |-> pl, opts |-> [priority |-> pl.priority, jobId |-> id],
   priority |-> pl.priority, holdForever |-> pl.crawl_id # NoCrawl,
   holdMs |-> IF pl.crawl_id # NoCrawl THEN 0
              ELSE IF pl.timeout = NoTimeout THEN DefaultHold ELSE pl.timeout]

(* ---------------------- waitForJob: the data ------------------------- *)
Waiters == {"w1"}            \* callers of waitForJob
PollMs == 500                \* line 374: setTimeout(resolve, 500)
DefaultWaitTimeout == 180000 \* lines 376 and 382: timeout ?? 180000
NoTimer == 0 - 1

\* an error message: plain text, or the serialized form of a transportable
\* error, code and text
Plain(text) == [ser |-> FALSE, code |-> "", text |-> text]

Serialized(code, text) == [ser |-> TRUE, code |-> code, text |-> text]

\* the codes error-serde knows
KnownCodes == {"SCRAPE_SSL_ERROR", "SCRAPE_DNS_ERROR"}

\* what can be thrown: the class, the code of a transportable error, the message
Thrown(class, code, msg) == [class |-> class, code |-> code, message |-> msg]

NoError == Thrown("", "", Plain(""))

TransportableError(code, text) == Thrown("TransportableError", code, Plain(text))

\* lines 377 and 386: both timeouts are a ScrapeJobTimeoutError, told apart by
\* their message
ScrapeJobTimeoutError(text) ==
  Thrown("ScrapeJobTimeoutError", "SCRAPE_TIMEOUT", Plain(text))

InQueueText == "Scrape timed out while waiting in the concurrency limit queue"

\* line 386: the message of the deadline, by the kind of job reference
DeadlineText(ref) ==
  IF ref = "id" THEN "Scrape timed out after waiting in the concurrency limit queue"
  ELSE "Scrape timed out"

GenericError(msg) == Thrown("Error", "", msg)

\* classes that are instances of TransportableError, of Error
TransportableClasses == {"TransportableError", "ScrapeJobTimeoutError"}

ErrorClasses == TransportableClasses \cup {"Error", "TypeError"}

\* deserializeTransportableError: the typed error of a serialized message with
\* a known code, nothing for any other message
deserializeTransportableError(msg) ==
  IF msg.ser /\ msg.code \in KnownCodes
  THEN TransportableError(msg.code, msg.text)
  ELSE NoError

\* the outcome of a call: none yet, a returned document, a raised error
NoOutcome == [kind |-> "none", error |-> NoError, doc |-> ""]

Returns(doc) == [kind |-> "doc", error |-> NoError, doc |-> doc]

Raises(e) == [kind |-> "error", error |-> e, doc |-> ""]

\* locals of one waitForJob call
IdleWait == [pc |-> "idle", ref |-> "", id |-> 0, timeout |-> NoTimeout,
             start |-> 0, sleepUntil |-> NoTimer, timer |-> NoTimer,
             libTimer |-> NoTimer, doc |-> "", polls |-> 0, waited |-> FALSE,
             blobReads |-> 0, blobDeletes |-> 0, outcome |-> NoOutcome]

\* the worker queue's record of a job that is not in the queue
NoQueueJob == [state |-> "none", returnvalue |-> "", error |-> NoError,
               zeroDataRetention |-> FALSE]

NoBlob == [present |-> FALSE, docs |-> <<>>]

\* the jobs waited for and the callers of waitForJob in scope d: none where no
\* call of waitForJob is made
WaitIdsOf(d) == IF "waitIds" \in DOMAIN d THEN d.waitIds ELSE {}

WaitersOf(d) == IF "waitIds" \in DOMAIN d THEN Waiters ELSE {}

(* ---------------- scrapeURLWithIndex: the data (index.ts) -------------- *)
IndexLimit == 5              \* index.ts line 211: .limit(5)
errorCountToRegister == 3    \* index.ts line 137

\* the statuses a stored row can have: one 2xx, one 3xx, one 5xx
RowStatuses == {200, 301, 500}

\* what the query of lines 183-211 answers: at most IndexLimit rows, the newest
\* first; the row at position k has id k and was created at 100 - k
RowAt(k, status) == [id |-> k, created_at |-> 100 - k, status |-> status]

IndexAnswers ==
  UNION {{[k \in 1..n |-> RowAt(k, st[k])] : st \in [1..n -> RowStatuses]}
           : n \in 0..IndexLimit}

NoRow == [id |-> 0, created_at |-> 0, status |-> 0]

\* locals of one scrapeURLWithIndex call once the query has answered
NoLookup == [data |-> <<>>, pc |-> "select", selectedRow |-> NoRow,
             outcome |-> [kind |-> "none", doc |-> 0, created_at |-> 0]]

\* the rows the query answers in scope d: no lookup is made where none is named
IndexRowsOf(d) == IF "rows" \in DOMAIN d THEN d.rows ELSE {<<>>}

(* ------------------------------ Init ---------------------------------- *)
InitWith(d, stores, tenants) ==
  /\ now = 0
  /\ ticks = 0
  /\ crawlStore \in stores
  /\ acuc \in tenants
  /\ active = [t \in Teams |-> {}]
  /\ crawlActive = [c \in CrawlIds |-> {}]
  /\ deferred = [t \in Teams |-> <<>>]
  /\ bull = {}
  /\ job = [i \in 1..d.jobs |-> NoJob]
  /\ nextId = 1
  /\ proc = [p \in Procs |-> IdleProc]
  /\ lastSent = [t \in Teams |-> Never]
  /\ sendQ = [t \in Teams |-> 0]
  /\ emitted = [t \in Teams |-> 0]
  /\ errlog = 0
  /\ wait = [w \in WaitersOf(d) |-> IdleWait]
  /\ queueJob = [i \in WaitIdsOf(d) |-> NoQueueJob]
  /\ blob = [i \in WaitIdsOf(d) |-> NoBlob]
  /\ dom = d
  /\ mirror = [i \in 1..d.jobs |-> "none"]
  /\ lookup \in {[NoLookup EXCEPT !.data = r] : r \in IndexRowsOf(d)}
  /\ hist = [i \in 1..d.jobs |-> NoHist]

(* ------------------------------ clock --------------------------------- *)
Tick ==
  /\ ticks < dom.ticks
  /\ ticks' = ticks + 1
  /\ now' = now + TickMs
  /\ UNCHANGED <<crawlStore, acuc, active, crawlActive, deferred, bull, job,
                 nextId, proc, lastSent, sendQ, emitted, dom, mirror, lookup, waitVars, errlog, hist>>

(* ------------------- _addScrapeJobToBullMQ (56-124) ------------------- *)
\* the locals of a call that goes on to admit the jobs ids, in this order
EnterAdmitAtEnqueue(pr, ids) ==
  [pr EXCEPT !.pc = "admit", !.toBull = ids,
             !.stage = [i \in 1..Len(ids) |-> "add"]]

EnterAdmit(pr, ids) ==
  [pr EXCEPT !.pc = "admit", !.toBull = ids,
             !.stage = [i \in 1..Len(ids) |-> "active"]]

\* the call is over: a single submission returns, a bulk one goes on to the next
\* tenant of its input unless an await of it has thrown
AfterAdmit(pr) ==
  IF pr.kind = "many" /\ pr.teams # <<>> /\ ~pr.failed
  THEN [pr EXCEPT !.pc = "team"]
  ELSE IdleProc

\* The jobs of one Promise.all (349-359) run _addScrapeJobToBullMQ side by side.
\* Each of its awaited calls is issued when the call before it has answered, and
\* calls issued on one connection are answered in issue order: a job overtakes
\* no earlier job at the same call, and jobs at different calls interleave freely.

\* lines 62-103: what the A/B mirror does when _addScrapeJobToBullMQ is entered.
\* shouldABTest depends on the environment and on Math.random(): the request is
\* not made ("none"), is started in an async function that nothing awaits
\* ("inflight"), or the code that starts it throws ("nostart")
MirrorStarts == IF "mirror" \in DOMAIN dom THEN dom.mirror ELSE {"none"}

MirrorFailureThrows(pr) == IdleProc

\* lines 96-98 and 101-103: a failure of the mirror is caught and logged; the
\* call that started it goes on as it would have
MirrorFailure(pr) == pr

\* lines 62-109: the mirror, then pushConcurrencyLimitActiveJob(team_id, jobId,
\* 60 * 1000), the first await of the function
AdmitPushActive(p) ==
  /\ proc[p].pc = "admit"
  /\ \E i \in DOMAIN proc[p].stage, m \in MirrorStarts :
       /\ proc[p].stage[i] = "active"
       /\ \A k \in 1..(i - 1) : proc[p].stage[k] # "active"
       /\ LET id == proc[p].toBull[i]
              pl == job[id]
              following == [proc[p] EXCEPT !.stage[i] =
                              IF pl.crawl_id # NoCrawl THEN "crawl" ELSE "add"]
          IN  /\ mirror' = [mirror EXCEPT ![id] = m]
              /\ active' = [active EXCEPT ![pl.team_id] =
                              PushActive(@, id, ActiveTTL, now)]
              /\ hist' = [hist EXCEPT ![id].pushes = @ + 1]
              /\ proc' = [proc EXCEPT ![p] =
                            IF m = "nostart" THEN MirrorFailure(following)
                            ELSE following]
  /\ UNCHANGED <<now, crawlStore, acuc, crawlActive, deferred, bull, job, nextId,
                 ticks, lastSent, sendQ, emitted, dom, lookup, waitVars, errlog>>

\* lines 78-98: the request of a started mirror is answered or fails, at any time
\* after its start; the failure reaches the catch of line 96
MirrorSettle(i) ==
  /\ mirror[i] = "inflight"
  /\ \E o \in {"sent", "failed"} :
       /\ mirror' = [mirror EXCEPT ![i] = o]
       /\ proc' = [p \in Procs |->
                     IF o = "failed" /\ proc[p].pc = "admit" /\ i \in Range(proc[p].toBull)
                     THEN MirrorFailure(proc[p]) ELSE proc[p]]
  /\ UNCHANGED <<now, crawlStore, acuc, active, crawlActive, deferred, bull, job,
                 nextId, ticks, lastSent, sendQ, emitted, dom, lookup, waitVars, errlog,
                 hist>>

\* lines 111-116: getCrawl, then pushCrawlConcurrencyLimitActiveJob when due
AdmitCrawl(p) ==
  /\ proc[p].pc = "admit"
  /\ \E i \in DOMAIN proc[p].stage :
       /\ proc[p].stage[i] = "crawl"
       /\ \A k \in 1..(i - 1) : proc[p].stage[k] # "crawl"
       /\ LET id == proc[p].toBull[i]
              pl == job[id]
              due == WritesCrawlEntry(pl, crawlStore[pl.crawl_id])
          IN  /\ crawlActive' = IF due
                   THEN [crawlActive EXCEPT ![pl.crawl_id] =
                           PushActive(@, id, ActiveTTL, now)]
                   ELSE crawlActive
              /\ hist' = [hist EXCEPT ![id].crawlPushes = IF due THEN @ + 1 ELSE @,
                                      ![id].crawlRead = "dispatch"]
              /\ proc' = [proc EXCEPT ![p].stage[i] = "add"]
  /\ UNCHANGED <<now, crawlStore, acuc, active, deferred, bull, job, nextId, ticks,
                 lastSent, sendQ, emitted, dom, mirror, lookup, waitVars, errlog>>

\* lines 119-123: getScrapeQueue().add(...); the handle goes back to the caller
AdmitEnqueue(p) ==
  /\ proc[p].pc = "admit"
  /\ \E i \in DOMAIN proc[p].stage :
       /\ proc[p].stage[i] = "add"
       /\ \A k \in 1..(i - 1) :
            (job[proc[p].toBull[k]].crawl_id = NoCrawl)
              = (job[proc[p].toBull[i]].crawl_id = NoCrawl)
            => proc[p].stage[k] \in {"done", "failed"}
       /\ LET id == proc[p].toBull[i]
              st == [proc[p].stage EXCEPT ![i] = "done"]
              over == \A k \in DOMAIN st : st[k] \in {"done", "failed"}
          IN  /\ bull' = bull \cup {id}
              /\ hist' = [hist EXCEPT ![id].ret =
                            IF proc[p].kind = "one" THEN "handle" ELSE @]
              /\ proc' = [proc EXCEPT ![p] =
                            IF over THEN AfterAdmit(proc[p])
                            ELSE [proc[p] EXCEPT !.stage = st]]
  /\ UNCHANGED <<now, crawlStore, acuc, active, crawlActive, deferred, job, nextId,
                 ticks, lastSent, sendQ, emitted, dom, mirror, lookup, waitVars, errlog>>

\* lines 105-123 have no try/catch: a ledger write or an enqueue that rejects
\* throws out of _addScrapeJobToBullMQ, whatever the step that would follow
AfterErrorSwallowed(following) == following

AfterError(following) == "failed"

\* the step that follows step st of _addScrapeJobToBullMQ for payload pl
StageAfter(st, pl) ==
  IF st = "active" THEN (IF pl.crawl_id # NoCrawl THEN "crawl" ELSE "add")
  ELSE IF st = "crawl" THEN "add"
  ELSE "done"

\* the i-th job of the call of p fails at step at: its chain ends, the call
\* rejects (Promise.all rejects at the first rejection, 349-359; the single
\* path awaits the one chain, 195), the chains of the other jobs run on
AdmitThrow(p, i, at) ==
  LET id == proc[p].toBull[i]
      to == AfterError(StageAfter(at, job[id]))
      thrown == to = "failed"
      st == [proc[p].stage EXCEPT ![i] = to]
      over == \A k \in DOMAIN st : st[k] \in {"done", "failed"}
      pr == [proc[p] EXCEPT !.stage = st, !.failed = @ \/ thrown]
  IN  /\ hist' = [j \in DOMAIN job |->
             IF j = id
             THEN [hist[j] EXCEPT !.failedAt = at,
                                  !.ret = IF thrown THEN "error" ELSE @]
             ELSE IF thrown /\ proc[p].kind = "many" /\ j \in Range(proc[p].jobs)
             THEN [hist[j] EXCEPT !.ret = "error"]
             ELSE hist[j]]
      /\ proc' = [proc EXCEPT ![p] = IF over THEN AfterAdmit(pr) ELSE pr]

\* line 109 rejects: nothing is written
AdmitPushActiveFail(p) ==
  /\ proc[p].pc = "admit"
  /\ \E i \in DOMAIN proc[p].stage :
       /\ proc[p].stage[i] = "active"
       /\ \A k \in 1..(i - 1) : proc[p].stage[k] # "active"
       /\ AdmitThrow(p, i, "active")
  /\ UNCHANGED <<now, crawlStore, acuc, active, crawlActive, deferred, bull, job,
                 nextId, ticks, lastSent, sendQ, emitted, dom, mirror, lookup, waitVars, errlog>>

\* line 112 or line 114 rejects: the tenant's entry of line 109 stays
AdmitCrawlFail(p) ==
  /\ proc[p].pc = "admit"
  /\ \E i \in DOMAIN proc[p].stage :
       /\ proc[p].stage[i] = "crawl"
       /\ \A k \in 1..(i - 1) : proc[p].stage[k] # "crawl"
       /\ AdmitThrow(p, i, "crawl")
  /\ UNCHANGED <<now, crawlStore, acuc, active, crawlActive, deferred, bull, job,
                 nextId, ticks, lastSent, sendQ, emitted, dom, mirror, lookup, waitVars, errlog>>

\* what lines 119-123 do to the entries of job id when the enqueue rejects:
\* nothing, no handler undoes the writes of lines 109 and 114
OnEnqueueErrorRollback(entries, id) == {e \in entries : e[1] # id}

OnEnqueueError(entries, id) == entries

\* lines 119-123 reject
AdmitEnqueueFail(p) ==
  /\ proc[p].pc = "admit"
  /\ \E i \in DOMAIN proc[p].stage :
       /\ proc[p].stage[i] = "add"
       /\ \A k \in 1..(i - 1) :
            (job[proc[p].toBull[k]].crawl_id = NoCrawl)
              = (job[proc[p].toBull[i]].crawl_id = NoCrawl)
            => proc[p].stage[k] \in {"done", "failed"}
       /\ LET id == proc[p].toBull[i]
          IN  /\ active' = [active EXCEPT ![job[id].team_id] =
                              OnEnqueueError(@, id)]
              /\ crawlActive' =
                   IF job[id].crawl_id # NoCrawl
                   THEN [crawlActive EXCEPT ![job[id].crawl_id] =
                           OnEnqueueError(@, id)]
                   ELSE crawlActive
       /\ AdmitThrow(p, i, "add")
  /\ UNCHANGED <<now, crawlStore, acuc, deferred, bull, job, nextId, ticks,
                 lastSent, sendQ, emitted, dom, mirror, lookup, waitVars, errlog>>

(* ---------------- addScrapeJob / addScrapeJobRaw (126-207) ------------ *)
AfterVerdictDropsLimited(pr, v) ==
  IF v = "no" THEN EnterAdmit([pr EXCEPT !.limited = v], <<pr.id>>) ELSE IdleProc

\* where a single submission goes once its verdict is known (line 166)
AfterVerdict(pr, v) ==
  IF v = "no" THEN EnterAdmit([pr EXCEPT !.limited = v], <<pr.id>>)
  ELSE [pr EXCEPT !.limited = v, !.pc = IF v = "yes" THEN "cqcount" ELSE "defer"]

FirstGateIgnoresOverride(pl, d) ==
  IF pl.crawl_id # NoCrawl THEN "crawl" ELSE "tenant"

\* lines 137-140, 157: the first gate of a single submission; directToBullMQ
\* skips them all
FirstGate(pl, d) ==
  IF d THEN "dispatch"
  ELSE IF pl.crawl_id # NoCrawl THEN "crawl" ELSE "tenant"

DeferredReturnHandle == "handle"

\* line 193: return null
DeferredReturn == "null"

\* lines 126-140: a caller submits one job
StartOne(p) ==
  /\ proc[p].pc = "idle"
  /\ p \in dom.procs
  /\ dom.single
  /\ dom.serial => \A q \in Procs : proc[q].pc = "idle"
  /\ nextId <= dom.jobs
  /\ \E pl \in dom.payloads, d \in dom.direct :
       LET pr == [IdleProc EXCEPT !.kind = "one", !.id = nextId, !.direct = d]
           gate == FirstGate(pl, d)
       IN  /\ job' = [job EXCEPT ![nextId] = pl]
           /\ hist' = [hist EXCEPT ![nextId].direct = d,
                                   ![nextId].verdict =
                                      IF gate = "dispatch" THEN "no" ELSE @]
           /\ proc' = [proc EXCEPT ![p] =
                 IF gate = "dispatch" THEN AfterVerdict(pr, "no")
                 ELSE [pr EXCEPT !.pc = gate]]
  /\ nextId' = nextId + 1
  /\ UNCHANGED <<now, crawlStore, acuc, active, crawlActive, deferred, bull, ticks,
                 lastSent, sendQ, emitted, dom, mirror, lookup, waitVars, errlog>>

\* lines 141-154: the crawl gate
CrawlGate(p) ==
  /\ proc[p].pc = "crawl"
  /\ LET id == proc[p].id
         pl == job[id]
         crawl == crawlStore[pl.crawl_id]
         used == Cardinality(LiveEntries(crawlActive[pl.crawl_id], now))
         blocked == CrawlBlocked(crawl, used)
     IN  /\ hist' = [hist EXCEPT ![id].verdict = IF blocked THEN "yes-crawl" ELSE @,
                                 ![id].crawlRead = "gate"]
         /\ proc' = [proc EXCEPT ![p] =
               IF blocked THEN AfterVerdict(@, "yes-crawl")
               ELSE [@ EXCEPT !.pc = "tenant"]]
  /\ UNCHANGED <<now, crawlStore, acuc, active, crawlActive, deferred, bull, job,
                 nextId, ticks, lastSent, sendQ, emitted, dom, mirror, lookup, waitVars, errlog>>

TenantCleanSkipped(p) ==
  /\ proc[p].pc = "tenant"
  /\ LET pl == job[proc[p].id]
     IN  proc' = [proc EXCEPT ![p].now = now,
                              ![p].maxInner =
                                 TeamConcurrency(acuc[pl.team_id], pl.is_extract),
                              ![p].pc = "count"]
  /\ hist' = [hist EXCEPT ![proc[p].id].tenantRead = TRUE]
  /\ UNCHANGED <<now, crawlStore, acuc, active, crawlActive, deferred, bull, job,
                 nextId, ticks, lastSent, sendQ, emitted, dom, mirror, lookup,
                 waitVars, errlog>>

\* lines 158-160: now = Date.now(), the tenant's ceiling for the job's mode, then
\* cleanOldConcurrencyLimitEntries(team_id, now)
TenantClean(p) ==
  /\ proc[p].pc = "tenant"
  /\ LET pl == job[proc[p].id]
     IN  /\ active' = [active EXCEPT ![pl.team_id] = CleanOld(@, now)]
         /\ proc' = [proc EXCEPT ![p].now = now,
                                  ![p].maxInner =
                                     TeamConcurrency(acuc[pl.team_id], pl.is_extract),
                                  ![p].pc = "count"]
  /\ hist' = [hist EXCEPT ![proc[p].id].tenantRead = TRUE]
  /\ UNCHANGED <<now, crawlStore, acuc, crawlActive, deferred, bull, job, nextId,
                 ticks, lastSent, sendQ, emitted, dom, mirror, lookup, waitVars, errlog>>

TenantCountOfNothing(p) ==
  /\ proc[p].pc = "count"
  /\ LET id == proc[p].id
         v == TenantVerdict(0, proc[p].maxInner)
     IN  /\ hist' = [hist EXCEPT ![id].verdict = v]
         /\ proc' = [proc EXCEPT ![p] = AfterVerdict(@, v)]
  /\ UNCHANGED <<now, crawlStore, acuc, active, crawlActive, deferred, bull, job,
                 nextId, ticks, lastSent, sendQ, emitted, dom, mirror, lookup,
                 waitVars, errlog>>

\* lines 161-162: count the tenant's active entries and decide
TenantCount(p) ==
  /\ proc[p].pc = "count"
  /\ LET id == proc[p].id
         pl == job[id]
         count == Cardinality(LiveEntries(active[pl.team_id], proc[p].now))
         v == TenantVerdict(count, proc[p].maxInner)
     IN  /\ hist' = [hist EXCEPT ![id].verdict = v]
         /\ proc' = [proc EXCEPT ![p] = AfterVerdict(@, v)]
  /\ UNCHANGED <<now, crawlStore, acuc, active, crawlActive, deferred, bull, job,
                 nextId, ticks, lastSent, sendQ, emitted, dom, mirror, lookup, waitVars, errlog>>

\* the Notification Gate's read: no event for the tenant in the last 15 days
ShouldSend(team) ==
  lastSent[team] = Never \/ now - lastSent[team] >= ResendWindow

\* lines 171-181: the deferred backlog against maxConcurrency, which here is the
\* variable of line 135 (the one of line 159 is out of scope), then the gate
CQCount(p) ==
  /\ proc[p].pc = "cqcount"
  /\ LET pl == job[proc[p].id]
         concurrencyQueueJobs == Len(deferred[pl.team_id])
     IN  proc' = [proc EXCEPT ![p].pc =
                    IF concurrencyQueueJobs > proc[p].maxOuter THEN "should"
                    ELSE "defer"]
  /\ UNCHANGED <<now, crawlStore, acuc, active, crawlActive, deferred, bull, job,
                 nextId, ticks, lastSent, sendQ, emitted, dom, mirror, lookup, waitVars, errlog, hist>>

\* lines 176-181: ask the gate, hand the event to the sender without awaiting it
AskGate(p) ==
  /\ proc[p].pc = "should"
  /\ LET pl == job[proc[p].id]
     IN  sendQ' = [sendQ EXCEPT ![pl.team_id] =
                     IF ShouldSend(pl.team_id) THEN @ + 1 ELSE @]
  /\ proc' = [proc EXCEPT ![p].pc = "defer"]
  /\ UNCHANGED <<now, crawlStore, acuc, active, crawlActive, deferred, bull, job,
                 nextId, ticks, lastSent, emitted, dom, mirror, lookup, waitVars, errlog, hist>>

\* lines 185-193: mark the payload, park the job, return null
DeferOne(p) ==
  /\ proc[p].pc = "defer"
  /\ proc[p].kind = "one"
  /\ LET id == proc[p].id
         pl == [job[id] EXCEPT !.concurrencyLimited = TRUE]
     IN  /\ job' = [job EXCEPT ![id] = pl]
         /\ deferred' = [deferred EXCEPT ![pl.team_id] =
                           PushDeferred(@, DeferredEntry(id, pl))]
         /\ hist' = [hist EXCEPT ![id].ret = DeferredReturn]
  /\ proc' = [proc EXCEPT ![p] = IdleProc]
  /\ UNCHANGED <<now, crawlStore, acuc, active, crawlActive, bull, nextId, ticks,
                 lastSent, sendQ, emitted, dom, mirror, lookup, waitVars, errlog>>

\* lines 185-193 when pushConcurrencyLimitedJob rejects: the payload is marked,
\* nothing is parked, the await of line 187 throws
DeferOneFail(p) ==
  /\ proc[p].pc = "defer"
  /\ proc[p].kind = "one"
  /\ LET id == proc[p].id
         thrown == AfterError("done") = "failed"
     IN  /\ job' = [job EXCEPT ![id].concurrencyLimited = TRUE]
         /\ hist' = [hist EXCEPT ![id].failedAt = "defer",
                                 ![id].ret = IF thrown THEN "error"
                                             ELSE DeferredReturn]
  /\ proc' = [proc EXCEPT ![p] = IdleProc]
  /\ UNCHANGED <<now, crawlStore, acuc, active, crawlActive, deferred, bull,
                 nextId, ticks, lastSent, sendQ, emitted, dom, mirror, lookup, waitVars, errlog>>

\* sendNotificationWithCustomDays, running un-awaited: consult the last-sent
\* record, emit and update it when the window has passed
Deliver ==
  /\ \E t \in Teams :
       /\ sendQ[t] > 0
       /\ sendQ' = [sendQ EXCEPT ![t] = @ - 1]
       /\ IF ShouldSend(t)
          THEN /\ emitted' = [emitted EXCEPT ![t] = @ + 1]
               /\ lastSent' = [lastSent EXCEPT ![t] = now]
          ELSE UNCHANGED <<emitted, lastSent>>
  /\ UNCHANGED <<now, crawlStore, acuc, active, crawlActive, deferred, bull, job,
                 nextId, ticks, proc, dom, mirror, lookup, waitVars, errlog, hist>>

\* lines 178-180 and 330-332: what a rejected send does to a running call. The
\* promise is not awaited and its rejection goes to the handler given to
\* .catch: no call sees it
DeliveryFailureThrown(pr) ==
  IF pr.pc \in {"defer", "bdefer"} THEN IdleProc ELSE pr

DeliveryFailure(pr) == pr

\* the sender fails: the handler of .catch writes the error to the log
DeliverFail ==
  /\ \E t \in Teams :
       /\ sendQ[t] > 0
       /\ sendQ' = [sendQ EXCEPT ![t] = @ - 1]
  /\ errlog' = errlog + 1
  /\ proc' = [p \in Procs |-> DeliveryFailure(proc[p])]
  /\ UNCHANGED <<now, crawlStore, acuc, active, crawlActive, deferred, bull, job,
                 nextId, ticks, lastSent, emitted, dom, mirror, lookup, waitVars, hist>>

(* ----------------------- addScrapeJobs (209-361) ---------------------- *)
\* the keys of a Map filled in input order: distinct, by first occurrence
RECURSIVE Distinct(_)
Distinct(s) ==
  IF s = <<>> THEN <<>>
  ELSE LET r == Distinct(SubSeq(s, 1, Len(s) - 1))
           x == s[Len(s)]
       IN  IF x \in Range(r) THEN r ELSE Append(r, x)

\* lines 228-233: jobsByTeam.get(team), in input order
TeamJobs(ids, team) == SelectSeq(ids, LAMBDA i : job[i].team_id = team)

\* lines 270-279: jobsByCrawlID.get(crawl) and jobsWithoutCrawlID
CrawlJobs(ids, crawl) == SelectSeq(ids, LAMBDA i : job[i].crawl_id = crawl)

\* isCrawlOrBatchScrape (32-36): !!crawlerOptions || !!crawl_id
isCrawlOrBatchScrape(pl) == pl.crawlerOptions # "absent" \/ pl.crawl_id # NoCrawl

\* where a bulk submission goes once the tenant's jobs are split (337-359)
BulkDispatch(pr) ==
  IF pr.toCQ # <<>> THEN [pr EXCEPT !.pc = "bdefer"]
  ELSE IF pr.failed THEN IdleProc
  ELSE IF pr.toBull # <<>> THEN EnterAdmit(pr, pr.toBull)
  ELSE AfterAdmit(pr)

\* the inputs of one bulk call: dom.sizes gives their lengths
Batches == UNION { [1..n -> dom.payloads] : n \in dom.sizes }

\* lines 209-233: a caller submits a batch; it is grouped by tenant
StartMany(p) ==
  /\ proc[p].pc = "idle"
  /\ p \in dom.procs
  /\ dom.serial => \A q \in Procs : proc[q].pc = "idle"
  /\ \E input \in Batches :
       LET n == Len(input)
           ids == [i \in 1..n |-> nextId + i - 1]
       IN  /\ nextId + n - 1 <= dom.jobs
           /\ job' = [i \in DOMAIN job |->
                        IF i \in Range(ids) THEN input[i - nextId + 1] ELSE job[i]]
           /\ hist' = [i \in DOMAIN job |->
                        IF i \in Range(ids) THEN [hist[i] EXCEPT !.bulk = TRUE]
                        ELSE hist[i]]
           /\ proc' = [proc EXCEPT ![p] =
                 [IdleProc EXCEPT !.kind = "many", !.pc = "team", !.jobs = ids,
                    !.teams = Distinct([i \in 1..n |-> input[i].team_id])]]
           /\ nextId' = nextId + n
  /\ UNCHANGED <<now, crawlStore, acuc, active, crawlActive, deferred, bull, ticks,
                 lastSent, sendQ, emitted, dom, mirror, lookup, waitVars, errlog>>

\* lines 235-279: the next tenant of the batch; its jobs are split by crawl
BulkTeam(p) ==
  /\ proc[p].pc = "team"
  /\ LET team == Head(proc[p].teams)
         mine == TeamJobs(proc[p].jobs, team)
         crawls == Distinct([i \in DOMAIN mine |-> job[mine[i]].crawl_id])
         buckets == SelectSeq(crawls, LAMBDA c : c # NoCrawl)
     IN  proc' = [proc EXCEPT ![p].team = team, ![p].teams = Tail(@),
                    ![p].buckets = buckets, ![p].potential = <<>>,
                    ![p].forced = <<>>, ![p].toCQ = <<>>, ![p].toBull = <<>>,
                    ![p].stage = <<>>,
                    ![p].pc = IF buckets # <<>> THEN "bucket" ELSE "btenant"]
  /\ UNCHANGED <<now, crawlStore, acuc, active, crawlActive, deferred, bull, job,
                 nextId, ticks, lastSent, sendQ, emitted, dom, mirror, lookup, waitVars, errlog, hist>>

\* lines 282-304: one crawl bucket against its crawl's ceiling
BulkBucket(p) ==
  /\ proc[p].pc = "bucket"
  /\ LET c == Head(proc[p].buckets)
         crawlJobs == CrawlJobs(TeamJobs(proc[p].jobs, proc[p].team), c)
         crawl == crawlStore[c]
         used == Cardinality(LiveEntries(crawlActive[c], now))
         freeSlots == FreeSlots(CrawlLimit(crawl), used)
         rest == Tail(proc[p].buckets)
     IN  /\ proc' = [proc EXCEPT
               ![p].buckets = rest,
               ![p].pc = IF rest # <<>> THEN "bucket" ELSE "btenant",
               ![p].potential =
                  IF CrawlBounded(crawl) THEN @ \o Slice(crawlJobs, 0, freeSlots)
                  ELSE @ \o crawlJobs,
               ![p].forced =
                  IF CrawlBounded(crawl)
                  THEN @ \o Slice(crawlJobs, freeSlots, Len(crawlJobs))
                  ELSE @]
         /\ hist' = [i \in DOMAIN job |->
               IF i \in Range(crawlJobs) THEN [hist[i] EXCEPT !.crawlRead = "gate"]
               ELSE hist[i]]
  /\ UNCHANGED <<now, crawlStore, acuc, active, crawlActive, deferred, bull, job,
                 nextId, ticks, lastSent, sendQ, emitted, dom, mirror, lookup, waitVars, errlog>>

PotentialNoCrawlFirst(crawlPart, noCrawl) == noCrawl \o crawlPart

\* lines 282-306: jobsPotentiallyInCQ holds the admissible jobs of the crawl
\* buckets, then the jobs without a crawl
Potential(crawlPart, noCrawl) == crawlPart \o noCrawl

\* lines 306-311: the jobs without a crawl join, now = Date.now(), the ceiling is
\* read for the mode of jobs[0] (the first job of the whole input), then
\* cleanOldConcurrencyLimitEntries(teamId, now)
BulkClean(p) ==
  /\ proc[p].pc = "btenant"
  /\ LET mine == TeamJobs(proc[p].jobs, proc[p].team)
         first == job[proc[p].jobs[1]]
     IN  /\ proc' = [proc EXCEPT
               ![p].potential = Potential(@, CrawlJobs(mine, NoCrawl)),
               ![p].now = now,
               ![p].maxInner = TeamConcurrency(acuc[proc[p].team], first.from_extract),
               ![p].pc = "bcount"]
         /\ hist' = [i \in DOMAIN job |->
               IF i \in Range(mine) THEN [hist[i] EXCEPT !.tenantRead = TRUE]
               ELSE hist[i]]
  /\ active' = [active EXCEPT ![proc[p].team] = CleanOld(@, now)]
  /\ UNCHANGED <<now, crawlStore, acuc, crawlActive, deferred, bull, job, nextId,
                 ticks, lastSent, sendQ, emitted, dom, mirror, lookup, waitVars, errlog>>

AddToBullOneMore(potential, k) == Slice(potential, 0, k + 1)

\* line 320: jobsPotentiallyInCQ.slice(0, countCanBeDirectlyAdded)
AddToBull(potential, k) == Slice(potential, 0, k)

AddToCQWithoutForced(potential, forced, k) == Slice(potential, k, Len(potential))

\* line 321: jobsPotentiallyInCQ.slice(countCanBeDirectlyAdded).concat(jobsForcedToCQ)
AddToCQ(potential, forced, k) == Slice(potential, k, Len(potential)) \o forced

\* lines 313-327: count, headroom, the split, and the notification threshold
BulkCount(p) ==
  /\ proc[p].pc = "bcount"
  /\ LET pr == proc[p]
         count == Cardinality(LiveEntries(active[pr.team], pr.now))
         countCanBeDirectlyAdded == FreeSlots(pr.maxInner, count)
         addToBull == AddToBull(pr.potential, countCanBeDirectlyAdded)
         addToCQ == AddToCQ(pr.potential, pr.forced, countCanBeDirectlyAdded)
         split == [pr EXCEPT !.toBull = addToBull, !.toCQ = addToCQ]
         over == Len(pr.potential) - countCanBeDirectlyAdded > pr.maxInner
     IN  /\ proc' = [proc EXCEPT ![p] =
               IF over /\ ~isCrawlOrBatchScrape(job[pr.jobs[1]])
               THEN [split EXCEPT !.pc = "bshould"]
               ELSE BulkDispatch(split)]
         /\ hist' = [i \in DOMAIN job |->
               IF i \in Range(pr.potential) \cup Range(pr.forced)
               THEN [hist[i] EXCEPT
                       !.verdict = IF i \in Range(addToBull) THEN "no"
                                   ELSE IF i \in Range(pr.forced) THEN "yes-crawl"
                                   ELSE "yes"]
               ELSE hist[i]]
  /\ UNCHANGED <<now, crawlStore, acuc, active, crawlActive, deferred, bull, job,
                 nextId, ticks, lastSent, sendQ, emitted, dom, mirror, lookup, waitVars, errlog>>

\* lines 328-333: ask the gate for the tenant of jobs[0]
BulkAskGate(p) ==
  /\ proc[p].pc = "bshould"
  /\ LET team == job[proc[p].jobs[1]].team_id
     IN  sendQ' = [sendQ EXCEPT ![team] = IF ShouldSend(team) THEN @ + 1 ELSE @]
  /\ proc' = [proc EXCEPT ![p] = BulkDispatch(@)]
  /\ UNCHANGED <<now, crawlStore, acuc, active, crawlActive, deferred, bull, job,
                 nextId, ticks, lastSent, emitted, dom, mirror, lookup, waitVars, errlog, hist>>

\* lines 337-347: park the jobs of addToCQ, in order
BulkDefer(p) ==
  /\ proc[p].pc = "bdefer"
  /\ LET id == Head(proc[p].toCQ)
         pl == job[id]
         rest == Tail(proc[p].toCQ)
     IN  /\ deferred' = [deferred EXCEPT ![pl.team_id] =
                           PushDeferred(@, DeferredEntry(id, pl))]
         /\ proc' = [proc EXCEPT ![p] =
               IF rest # <<>> THEN [@ EXCEPT !.toCQ = rest]
               ELSE BulkDispatch([@ EXCEPT !.toCQ = rest])]
  /\ UNCHANGED <<now, crawlStore, acuc, active, crawlActive, bull, job, nextId,
                 ticks, lastSent, sendQ, emitted, dom, mirror, lookup, waitVars, errlog, hist>>

\* lines 337-347 when pushConcurrencyLimitedJob rejects for the next job of
\* addToCQ: Promise.all rejects and the call ends at line 337; the pushes of the
\* other jobs, already started, run on
BulkDeferFail(p) ==
  /\ proc[p].pc = "bdefer"
  /\ LET id == Head(proc[p].toCQ)
         rest == Tail(proc[p].toCQ)
         thrown == AfterError("done") = "failed"
         pr == [proc[p] EXCEPT !.toCQ = rest, !.failed = @ \/ thrown]
     IN  /\ hist' = [j \in DOMAIN job |->
                IF j = id
                THEN [hist[j] EXCEPT !.failedAt = "defer",
                                     !.ret = IF thrown THEN "error" ELSE @]
                ELSE IF thrown /\ j \in Range(proc[p].jobs)
                THEN [hist[j] EXCEPT !.ret = "error"]
                ELSE hist[j]]
         /\ proc' = [proc EXCEPT ![p] =
               IF rest # <<>> THEN pr ELSE BulkDispatch(pr)]
  /\ UNCHANGED <<now, crawlStore, acuc, active, crawlActive, deferred, bull, job,
                 nextId, ticks, lastSent, sendQ, emitted, dom, mirror, lookup, waitVars, errlog>>

(* ------------------------------ Next ---------------------------------- *)
Step(p) ==
  \/ StartOne(p)
  \/ CrawlGate(p)
  \/ TenantClean(p)
  \/ TenantCount(p)
  \/ CQCount(p)
  \/ AskGate(p)
  \/ DeferOne(p)
  \/ StartMany(p)
  \/ BulkTeam(p)
  \/ BulkBucket(p)
  \/ BulkClean(p)
  \/ BulkCount(p)
  \/ BulkAskGate(p)
  \/ BulkDefer(p)
  \/ AdmitPushActive(p)
  \/ AdmitCrawl(p)
  \/ AdmitEnqueue(p)

(* -------------------------- specifications ---------------------------- *)
Rec(d, h, m) == [exists |-> TRUE, delay |-> d, hasMax |-> h, maxConcurrency |-> m]

NoRec == [exists |-> FALSE, delay |-> FALSE, hasMax |-> FALSE, maxConcurrency |-> 0]

Tenant(c, e) == [exists |-> TRUE, crawl |-> c, extract |-> e]

NoTenant == [exists |-> FALSE, crawl |-> 0, extract |-> 0]

\* what crawl c1 and tenant t1 resolve to: a crawl without a record, without a
\* limit, with a delay alone, with a max_concurrency alone, with both; a tenant
\* without a row (ceiling 2) or with a row (ceilings per mode)
SerialEnv ==
  {<<NoRec, NoTenant>>, <<Rec(FALSE, FALSE, 0), Tenant(1, 2)>>,
   <<Rec(TRUE, FALSE, 0), Tenant(1, 2)>>, <<Rec(FALSE, TRUE, 1), NoTenant>>,
   <<Rec(TRUE, TRUE, 2), Tenant(1, 2)>>}

\* the row of the tenant whose jobs are scrapes and extracts, no crawl
ExtractEnv == Tenant(1, 2)

\* crawl c1 resolves to rec, tenant t1 to row; the other ids resolve to nothing
Stores(recs) == {[c \in CrawlIds |-> IF c = "c1" THEN r ELSE NoRec] : r \in recs}

Tenants(rows) == {[t \in Teams |-> IF t = "t1" THEN r ELSE NoTenant] : r \in rows}

\* the page jobs of a crawl carry the crawl's crawlerOptions
PageJobs(rec) ==
  Payloads({"t1"}, {"c1"}, {IF rec.delay THEN "delay" ELSE "absent"},
           {<<FALSE, FALSE>>}, {10})

AdHocJobs == Payloads({"t1"}, {NoCrawl}, {"absent"}, {<<FALSE, FALSE>>}, {10})

\* the jobs an extract makes: no crawl, extract mode
ExtractJobs == Payloads({"t1"}, {NoCrawl}, {"absent"}, {<<TRUE, TRUE>>}, {10})

Next == Tick \/ Deliver \/ \E p \in Procs : Step(p)

\* Spec: one admitter, one call at a time; single jobs and batches of one tenant,
\* with and without a crawl, with and without the override
SerialDom(jobs) ==
  [procs |-> {"p1"}, serial |-> TRUE, single |-> TRUE, jobs |-> MaxJobs,
   sizes |-> 1..MaxBatch, ticks |-> MaxTicks, direct |-> BOOLEAN,
   payloads |-> AdHocJobs \cup jobs]

Init ==
  \/ \E env \in SerialEnv :
       InitWith(SerialDom(PageJobs(env[1])), Stores({env[1]}), Tenants({env[2]}))
  \/ InitWith(SerialDom(ExtractJobs), Stores({NoRec}), Tenants({ExtractEnv}))

Spec == Init /\ [][Next]_vars

\* the callers of the concurrent specifications: one admitter that may use the
\* override, or two admitters that do not, under every interleaving of their awaits
OneCaller ==
  [procs |-> {"p1"}, direct |-> BOOLEAN, single |-> TRUE, jobs |-> MaxJobs,
   sizes |-> 1..MaxBatch, ticks |-> MaxTicks]

TwoCallers ==
  [procs |-> Procs, direct |-> {FALSE}, single |-> TRUE, jobs |-> MaxJobs,
   sizes |-> 1..MaxBatch, ticks |-> MaxTicks]

Callers == {OneCaller, TwoCallers}

\* two admitters that each submit one batch as long as a ceiling above the default,
\* while the clock stands
BigBatch == DefaultConcurrency + 1

BatchCallers ==
  [procs |-> Procs, direct |-> {FALSE}, single |-> FALSE, jobs |-> 2 * BigBatch,
   sizes |-> {BigBatch}, ticks |-> 0]

\* TenantSpec: single jobs and batches of one tenant, no crawl
TenantDom(who) ==
  [procs |-> who.procs, serial |-> FALSE, single |-> who.single, jobs |-> who.jobs,
   sizes |-> who.sizes, ticks |-> who.ticks, direct |-> who.direct,
   payloads |-> AdHocJobs]

TenantInit ==
  \/ \E who \in Callers :
       InitWith(TenantDom(who), Stores({NoRec}),
                Tenants({NoTenant, Tenant(0, 0), Tenant(1, 1)}))
  \/ InitWith(TenantDom(BatchCallers), Stores({NoRec}),
              Tenants({Tenant(BigBatch, BigBatch)}))

TenantStep(p) ==
  \/ StartOne(p)
  \/ TenantClean(p)
  \/ TenantCount(p)
  \/ CQCount(p)
  \/ AskGate(p)
  \/ DeferOne(p)
  \/ StartMany(p)
  \/ BulkTeam(p)
  \/ BulkClean(p)
  \/ BulkCount(p)
  \/ BulkAskGate(p)
  \/ BulkDefer(p)
  \/ AdmitPushActive(p)
  \/ AdmitEnqueue(p)

TenantNext == Tick \/ Deliver \/ \E p \in Procs : TenantStep(p)

TenantSpec == TenantInit /\ [][TenantNext]_vars

\* CrawlSpec: single jobs and batches, all page jobs of one crawl with a ceiling
CrawlDom(who, rec) ==
  [procs |-> who.procs, serial |-> FALSE, single |-> who.single, jobs |-> who.jobs,
   sizes |-> who.sizes, ticks |-> who.ticks, direct |-> who.direct,
   payloads |-> PageJobs(rec)]

CrawlInit ==
  \/ \E env \in {<<Rec(FALSE, TRUE, 1), NoTenant>>,
                   <<Rec(TRUE, TRUE, 2), Tenant(3, 3)>>,
                   <<Rec(FALSE, TRUE, 2), Tenant(1, 1)>>} :
       InitWith(CrawlDom(OneCaller, env[1]), Stores({env[1]}), Tenants({env[2]}))
  \/ InitWith(CrawlDom(TwoCallers, Rec(FALSE, TRUE, 1)),
              Stores({Rec(FALSE, TRUE, 1)}), Tenants({NoTenant}))
  \/ InitWith(CrawlDom(BatchCallers, Rec(FALSE, TRUE, BigBatch)),
              Stores({Rec(FALSE, TRUE, BigBatch)}),
              Tenants({Tenant(BigBatch, BigBatch)}))

\* a batch of page jobs never asks the notification gate (line 328)
CrawlStep(p) ==
  \/ StartOne(p)
  \/ CrawlGate(p)
  \/ TenantClean(p)
  \/ TenantCount(p)
  \/ CQCount(p)
  \/ AskGate(p)
  \/ DeferOne(p)
  \/ StartMany(p)
  \/ BulkTeam(p)
  \/ BulkBucket(p)
  \/ BulkClean(p)
  \/ BulkCount(p)
  \/ BulkDefer(p)
  \/ AdmitPushActive(p)
  \/ AdmitCrawl(p)
  \/ AdmitEnqueue(p)

CrawlNext == Tick \/ Deliver \/ \E p \in Procs : CrawlStep(p)

CrawlSpec == CrawlInit /\ [][CrawlNext]_vars

\* BulkSpec: one admitter that submits batches only: one tenant, jobs without a
\* crawl and of two crawls, two priorities, in every input order
BulkDom ==
  [procs |-> {"p1"}, serial |-> TRUE, single |-> FALSE, jobs |-> MaxJobs,
   sizes |-> 1..MaxBatch, ticks |-> MaxTicks, direct |-> {FALSE},
   payloads |-> Payloads({"t1"}, {NoCrawl}, {"absent"}, {<<FALSE, FALSE>>}, {10, 5})
                \cup Payloads({"t1"}, {"c1"}, {"absent"}, {<<FALSE, FALSE>>}, {10})
                \cup Payloads({"t1"}, {"c2"}, {"absent"}, {<<FALSE, FALSE>>}, {5})]

BulkInit ==
  InitWith(BulkDom,
           {[c \in CrawlIds |-> IF c = "c1" THEN Rec(FALSE, TRUE, 1) ELSE r]
              : r \in {NoRec, Rec(FALSE, TRUE, 2)}},
           Tenants({Tenant(1, 1), Tenant(3, 3)}))

BulkStep(p) ==
  \/ StartMany(p)
  \/ BulkTeam(p)
  \/ BulkBucket(p)
  \/ BulkClean(p)
  \/ BulkCount(p)
  \/ BulkAskGate(p)
  \/ BulkDefer(p)
  \/ AdmitPushActive(p)
  \/ AdmitCrawl(p)
  \/ AdmitEnqueue(p)

BulkNext == Tick \/ Deliver \/ \E p \in Procs : BulkStep(p)

BulkSpec == BulkInit /\ [][BulkNext]_vars

(* ------------------------------ claims -------------------------------- *)
\* what the claims call the tenant's ceiling: the largest ceiling any mode of the
\* tenant's row gives, 2 without a row
TenantCeiling(t) ==
  IF acuc[t].exists THEN Max(acuc[t].crawl, acuc[t].extract) ELSE 2

\* the admitters that can run concurrently in this behaviour
Admitters == Cardinality(dom.procs)

\* the non-expired Active-Job Entries of a tenant, and those among them whose job
\* went through the gates (was not submitted with the override)
LiveOf(t) == {e \in active[t] : e[2] > now}

GatedLiveOf(t) == {e \in LiveOf(t) : ~hist[e[1]].direct}

\* C1 as stated: at every time, for every tenant, the non-expired Active-Job
\* Entries number at most ceiling(T) plus the concurrent admitters.
C1_AsStated ==
  \A t \in Teams : Cardinality(LiveOf(t)) <= TenantCeiling(t) + Admitters

\* C1 amended: at every time, for every tenant, the non-expired Active-Job Entries
\* of jobs that were not submitted with the direct-to-worker override number at
\* most ceiling(T) times the concurrent admitters (every admitter in flight,
\* single or bulk, can hold a stale headroom of up to ceiling(T) jobs).
C1_BoundedOverAdmission ==
  \A t \in Teams : Cardinality(GatedLiveOf(t)) <= TenantCeiling(t) * Admitters

\* two admitters have filled ceiling(T) slots each: more than ceiling + admitters
C1_Witness ==
  \E t \in Teams :
    /\ Admitters = 2
    /\ Cardinality(GatedLiveOf(t)) = TenantCeiling(t) * Admitters
    /\ Cardinality(GatedLiveOf(t)) > TenantCeiling(t) + Admitters

\* what the claims call the ceiling of a crawl: max_concurrency when the record
\* sets it, else 1 when the record has a delay; no record or neither: unbounded
CrawlHasCeiling(c) ==
  crawlStore[c].exists /\ (crawlStore[c].hasMax \/ crawlStore[c].delay)

CrawlCeiling(c) ==
  IF crawlStore[c].hasMax THEN crawlStore[c].maxConcurrency ELSE 1

LiveOfCrawl(c) == {e \in crawlActive[c] : e[2] > now}

GatedLiveOfCrawl(c) == {e \in LiveOfCrawl(c) : ~hist[e[1]].direct}

\* C2 as stated: at every time, for every crawl with a bounded ceiling, the active
\* entries of the crawl number at most crawl_ceiling(C) plus the concurrent
\* admitters.
C2_AsStated ==
  \A c \in CrawlIds :
    CrawlHasCeiling(c) => Cardinality(LiveOfCrawl(c)) <= CrawlCeiling(c) + Admitters

\* C2 amended: at every time, for every crawl with a bounded ceiling, the active
\* entries of the crawl whose job was not submitted with the direct-to-worker
\* override number at most crawl_ceiling(C) times the concurrent admitters.
C2_BoundedCrawlOverAdmission ==
  \A c \in CrawlIds :
    CrawlHasCeiling(c) =>
      Cardinality(GatedLiveOfCrawl(c)) <= CrawlCeiling(c) * Admitters

\* two admitters have filled crawl_ceiling(C) slots each
C2_Witness ==
  \E c \in CrawlIds :
    /\ CrawlHasCeiling(c)
    /\ Admitters = 2
    /\ Cardinality(GatedLiveOfCrawl(c)) = CrawlCeiling(c) * Admitters
    /\ Cardinality(GatedLiveOfCrawl(c)) > CrawlCeiling(c) + Admitters

\* the ceiling a single submission applies to its tenant: the row's ceiling for
\* the mode of the job, 2 without a row
CeilingFor(pl) ==
  IF ~acuc[pl.team_id].exists THEN 2
  ELSE IF pl.is_extract THEN acuc[pl.team_id].extract ELSE acuc[pl.team_id].crawl

\* the tenant's entries that are not expired at the timestamp of p's call
CountedBy(p) ==
  Cardinality({e \in active[job[proc[p].id].team_id] : e[2] > proc[p].now})

\* C3: a single job without the override that its crawl gate let through is
\* deferred (DEFER_TENANT) exactly when the tenant's count of non-expired active
\* entries is at least the tenant's ceiling (2 without a tenant record), and is
\* admitted otherwise. (One admitter: the ledger is as the call counted it.)
C3_TenantGate ==
  /\ \A p \in Procs :
       LET pr == proc[p]
       IN  (pr.kind = "one" /\ ~pr.direct /\ hist[pr.id].tenantRead /\ pr.pc # "count")
           => /\ pr.limited \in {"yes", "no"}
              /\ pr.limited = "yes" => pr.pc \in {"cqcount", "should", "defer"}
              /\ pr.limited = "no" => pr.pc = "admit"
              /\ pr.pc = "cqcount" => CountedBy(p) >= CeilingFor(job[pr.id])
              /\ (pr.pc = "admit" /\ pr.stage = <<"active">>)
                   => CountedBy(p) < CeilingFor(job[pr.id])
  /\ \A j \in DOMAIN job :
       (~hist[j].bulk /\ ~hist[j].direct /\ hist[j].tenantRead /\ hist[j].ret # "pending")
       => (hist[j].ret = "null" <=> hist[j].verdict = "yes")

\* a job is deferred at the default ceiling 2, another is admitted below it
C3_Witness ==
  \E p \in Procs :
    /\ proc[p].kind = "one" /\ proc[p].pc = "cqcount"
    /\ ~acuc[job[proc[p].id].team_id].exists
    /\ CountedBy(p) = 2
    /\ \E j \in DOMAIN job :
         ~hist[j].bulk /\ ~hist[j].direct /\ hist[j].ret = "handle"

\* C4: for a single job of a crawl with a bounded ceiling, free_crawl =
\* max(ceiling - count-crawl-active, 0) = 0 gives the DEFER_CRAWL verdict whatever
\* the tenant's headroom, and then the tenant's active set is neither cleaned nor
\* counted.
C4_CrawlGateFirst ==
  /\ [][\A p \in Procs :
          (proc[p].pc = "crawl" /\ proc'[p].pc # "crawl")
          => LET c == job[proc[p].id].crawl_id
                 free == Max(CrawlCeiling(c) - Cardinality(LiveOfCrawl(c)), 0)
             IN  (CrawlHasCeiling(c) /\ free = 0)
                 => /\ proc'[p].limited = "yes-crawl"
                    /\ proc'[p].pc = "defer"
                    /\ active' = active]_vars
  /\ [](\A j \in DOMAIN job :
          (~hist[j].bulk /\ hist[j].verdict = "yes-crawl")
          => ~hist[j].tenantRead /\ hist[j].ret \in {"pending", "null"})

\* a job has the DEFER_CRAWL verdict while its tenant has headroom
C4_Witness ==
  \E p \in Procs :
    /\ proc[p].kind = "one" /\ proc[p].pc = "defer" /\ proc[p].limited = "yes-crawl"
    /\ Cardinality(LiveOf(job[proc[p].id].team_id))
         < TenantCeiling(job[proc[p].id].team_id)

\* C5: both gates use as the ceiling of a crawl max_concurrency when the record
\* sets it, else 1 when the record has a delay, else none; without a record there
\* is no ceiling and only the tenant gate applies.
C5_CrawlCeiling ==
  [][\A p \in Procs :
       /\ (proc[p].pc = "crawl" /\ proc'[p].pc # "crawl")
          => LET c == job[proc[p].id].crawl_id
                 full == CrawlHasCeiling(c)
                           /\ Cardinality(LiveOfCrawl(c)) >= CrawlCeiling(c)
             IN  /\ full => proc'[p].limited = "yes-crawl"
                 /\ ~full => proc'[p].pc = "tenant" /\ proc'[p].limited = "null"
       /\ (proc[p].pc = "bucket" /\ proc'[p] # proc[p])
          => LET c == Head(proc[p].buckets)
                 n == Len(CrawlJobs(TeamJobs(proc[p].jobs, proc[p].team), c))
                 free == Max(CrawlCeiling(c) - Cardinality(LiveOfCrawl(c)), 0)
                 may == IF CrawlHasCeiling(c) THEN Min(n, free) ELSE n
             IN  /\ Len(proc'[p].potential) = Len(proc[p].potential) + may
                 /\ Len(proc'[p].forced) = Len(proc[p].forced) + (n - may)]_vars

\* a crawl whose record has only a delay holds one live entry, and a further job
\* of it is deferred by the crawl gate
C5_Witness ==
  \E p \in Procs :
    LET c == job[proc[p].id].crawl_id
    IN  /\ proc[p].kind = "one" /\ proc[p].limited = "yes-crawl"
        /\ crawlStore[c].delay /\ ~crawlStore[c].hasMax
        /\ Cardinality(LiveOfCrawl(c)) = 1

\* the ids parked in the deferred area of any tenant
DeferredIds == UNION {{deferred[t][i].id : i \in DOMAIN deferred[t]} : t \in Teams}

\* C6 as stated: with the direct-to-worker override submit_one admits the job
\* without reading the crawl record, the crawl active count, the tenant ceiling
\* or the tenant active count, and the job is never placed in the deferred area.
C6_AsStated ==
  \A j \in DOMAIN job :
    hist[j].direct => /\ hist[j].crawlRead = "none"
                      /\ ~hist[j].tenantRead
                      /\ j \notin DeferredIds

\* C6 amended: with the override submit_one admits the job without passing the
\* crawl gate or the tenant gate: the crawl active count, the tenant ceiling and
\* the tenant active count are not read, and the crawl record is read only by
\* the dispatch, once the job's active entry is written; the job is never placed
\* in the deferred area.
C6_Override ==
  /\ \A p \in Procs :
       proc[p].direct => proc[p].pc = "admit" /\ proc[p].limited = "no"
  /\ \A j \in DOMAIN job :
       hist[j].direct => /\ hist[j].verdict = "no"
                         /\ ~hist[j].tenantRead
                         /\ hist[j].crawlRead \in {"none", "dispatch"}
                         /\ hist[j].crawlRead = "dispatch"
                              => hist[j].pushes = 1 /\ job[j].crawl_id # NoCrawl
                         /\ hist[j].ret # "null"
                         /\ j \notin DeferredIds
                         /\ ~job[j].concurrencyLimited

\* a page job submitted with the override is on the worker queue, its crawl
\* record read by the dispatch, although its tenant is over its ceiling
C6_Witness ==
  \E j \in DOMAIN job :
    /\ hist[j].direct /\ j \in bull /\ hist[j].ret = "handle"
    /\ hist[j].crawlRead = "dispatch"
    /\ Cardinality(LiveOf(job[j].team_id)) > TenantCeiling(job[j].team_id)

\* C7: submit_one returns a worker-queue handle exactly when the job was enqueued
\* on the worker queue, and null exactly when the job was pushed to the tenant's
\* deferred area.
C7_HandleOrNull ==
  \A j \in DOMAIN job :
    ~hist[j].bulk =>
      /\ hist[j].ret = "handle" <=> j \in bull
      /\ hist[j].ret = "null" <=> j \in DeferredIds
      /\ ~(j \in bull /\ j \in DeferredIds)

\* one submission has returned a handle and another one null
C7_Witness ==
  \E j, k \in DOMAIN job :
    /\ ~hist[j].bulk /\ hist[j].ret = "handle" /\ j \in bull
    /\ ~hist[k].bulk /\ hist[k].ret = "null" /\ k \in DeferredIds

\* the jobs of bulk calls that have returned
Returned(j) == hist[j].bulk /\ \A p \in Procs : j \notin Range(proc[p].jobs)

\* the tenant's headroom as the bulk call of p computes it: the ceiling less the
\* entries not expired at the timestamp of the call
HeadroomOf(p) ==
  Max(TenantCeiling(proc[p].team)
        - Cardinality({e \in active[proc[p].team] : e[2] > proc[p].now}), 0)

\* C8: a bulk submission for one tenant with N potentially admissible jobs (after
\* the crawl gates) and tenant headroom k = max(ceiling - count-active, 0) puts
\* exactly min(N, k) jobs on the worker queue at once and defers all the others.
C8_BulkAdmitsMin ==
  /\ [][\A p \in Procs :
          (proc[p].pc = "bcount" /\ proc'[p] # proc[p])
          => LET N == Len(proc[p].potential)
                 k == HeadroomOf(p)
                 mine == Range(TeamJobs(proc[p].jobs, proc[p].team))
             IN  /\ Len(proc'[p].toBull) = Min(N, k)
                 /\ Range(proc'[p].toBull) \cup Range(proc'[p].toCQ) = mine
                 /\ Range(proc'[p].toBull) \cap Range(proc'[p].toCQ) = {}
                 /\ Len(proc'[p].toBull) + Len(proc'[p].toCQ) = Cardinality(mine)
                 /\ \A j \in mine :
                      hist'[j].verdict = "no" <=> j \in Range(proc'[p].toBull)]_vars
  /\ [](\A j \in DOMAIN job :
          Returned(j) => /\ hist[j].verdict = "no" <=> j \in bull
                         /\ hist[j].verdict # "no" <=> j \in DeferredIds)

\* a returned bulk call had two admissible jobs and headroom for one: one is on
\* the worker queue, the other one deferred by the tenant gate
C8_Witness ==
  \E j, k \in DOMAIN job :
    /\ Returned(j) /\ Returned(k) /\ k = j + 1
    /\ job[j].crawl_id = NoCrawl /\ job[k].crawl_id = NoCrawl
    /\ j \in bull /\ k \in DeferredIds /\ hist[k].verdict = "yes"

\* C9: in a bulk submission, of each crawl bucket with a bounded ceiling only the
\* first free_crawl jobs can be admitted; every later job of the bucket is
\* deferred also when the tenant has headroom, so a bulk call never admits more
\* than free_crawl jobs of a bounded crawl, and the forced-deferred jobs consume
\* no tenant headroom.
C9_ForcedDefer ==
  /\ [][\A p \in Procs :
          /\ (proc[p].pc = "bucket" /\ proc'[p] # proc[p])
             => LET c == Head(proc[p].buckets)
                    cj == CrawlJobs(TeamJobs(proc[p].jobs, proc[p].team), c)
                    free == Max(CrawlCeiling(c) - Cardinality(LiveOfCrawl(c)), 0)
                    m == Min(Len(cj), free)
                IN  CrawlHasCeiling(c)
                    => /\ proc'[p].potential = proc[p].potential \o SubSeq(cj, 1, m)
                       /\ proc'[p].forced = proc[p].forced \o SubSeq(cj, m + 1, Len(cj))
          /\ (proc[p].pc = "bcount" /\ proc'[p] # proc[p])
             => /\ Range(proc[p].forced) \subseteq Range(proc'[p].toCQ)
                /\ Range(proc[p].forced) \cap Range(proc'[p].toBull) = {}
                /\ Len(proc'[p].toBull) = Min(Len(proc[p].potential), HeadroomOf(p))
                /\ \A j \in Range(proc[p].forced) : hist'[j].verdict = "yes-crawl"]_vars
  /\ [](\A j \in DOMAIN job :
          (hist[j].bulk /\ hist[j].verdict = "yes-crawl")
          => j \notin bull /\ (Returned(j) => j \in DeferredIds))
  /\ [](\A c \in CrawlIds :
          CrawlHasCeiling(c) => Cardinality(LiveOfCrawl(c)) <= CrawlCeiling(c))

\* a job of a full crawl is forced to the deferred area while a later job of the
\* same batch is admitted and the tenant still has headroom
C9_Witness ==
  \E j, k \in DOMAIN job :
    /\ Returned(j) /\ Returned(k) /\ k = j + 1
    /\ hist[j].verdict = "yes-crawl" /\ j \in DeferredIds
    /\ k \in bull
    /\ Cardinality(LiveOf(job[j].team_id)) < TenantCeiling(job[j].team_id)

\* the jobs of the bulk call of p that passed their crawl gate, once the tenant
\* gate has decided
Decided(p) ==
  {j \in Range(proc[p].jobs) : hist[j].verdict \in {"no", "yes"}}

\* C10 as stated: of two potentially admissible jobs a and b of one tenant with a
\* before b in the input, b is admitted only if a is, also when a has no crawl
\* and b belongs to one.
C10_AsStated ==
  \A p \in Procs : \A a, b \in Decided(p) :
    (a < b /\ job[a].team_id = job[b].team_id /\ hist[b].verdict = "no")
    => hist[a].verdict = "no"

\* the place of a job's crawl among the crawls of the batch, by first occurrence
FirstOf(p, j) ==
  CHOOSE i \in Range(proc[p].jobs) :
    /\ job[i].crawl_id = job[j].crawl_id
    /\ \A h \in Range(proc[p].jobs) : job[h].crawl_id = job[j].crawl_id => i <= h

\* a comes before b in the list the tenant gate cuts: the jobs of the crawls, by
\* first occurrence of the crawl and then by input position, before the jobs
\* without a crawl, by input position
Before(p, a, b) ==
  IF job[a].crawl_id # NoCrawl /\ job[b].crawl_id = NoCrawl THEN TRUE
  ELSE IF job[a].crawl_id = NoCrawl /\ job[b].crawl_id # NoCrawl THEN FALSE
  ELSE IF job[a].crawl_id = job[b].crawl_id THEN a < b
  ELSE FirstOf(p, a) < FirstOf(p, b)

\* C10 amended: of two potentially admissible jobs a and b of one tenant, b is
\* admitted only if a is whenever a comes before b in the order: jobs of crawls
\* (crawls by first occurrence, input order within a crawl), then the jobs
\* without a crawl in input order; priority is not consulted.
C10_ListOrder ==
  \A p \in Procs : \A a, b \in Decided(p) :
    (Before(p, a, b) /\ job[a].team_id = job[b].team_id /\ hist[b].verdict = "no")
    => hist[a].verdict = "no"

\* a job of a crawl is admitted although a job without a crawl, earlier in the
\* input and of another priority, is deferred by the tenant gate
C10_Witness ==
  \E p \in Procs : \E a, b \in Decided(p) :
    /\ a < b /\ job[a].crawl_id = NoCrawl /\ job[b].crawl_id # NoCrawl
    /\ job[a].priority # job[b].priority
    /\ hist[b].verdict = "no" /\ hist[a].verdict = "yes"

(* --------------------------- dispatch scope --------------------------- *)
\* DispatchSpec: one admitter, page jobs of crawl c1 whose crawlerOptions are
\* what the caller hands in (absent, without a delay, with a delay), whatever the
\* stored crawl record says
DispatchDom ==
  [procs |-> {"p1"}, serial |-> TRUE, single |-> TRUE, jobs |-> MaxJobs,
   sizes |-> 1..MaxBatch, ticks |-> MaxTicks, direct |-> BOOLEAN,
   payloads |-> Payloads({"t1"}, {"c1"}, {"absent", "nodelay", "delay"},
                         {<<FALSE, FALSE>>}, {10})]

DispatchInit ==
  \E rec \in {Rec(TRUE, FALSE, 0), Rec(FALSE, TRUE, 2)} :
    InitWith(DispatchDom, Stores({rec}), Tenants({Tenant(1, 1)}))

DispatchSpec == DispatchInit /\ [][CrawlNext]_vars

\* C11: every admitted job produces exactly one push-active for its tenant, and
\* exactly one crawl-push-active when its crawl has a bounded ceiling (the crawl
\* record has a delay or a max_concurrency), none when the crawl is unbounded or
\* the job has no crawl; on the single, the bulk and the direct-to-worker path.
C11_AsStated ==
  \A j \in DOMAIN job :
    j \in bull =>
      /\ hist[j].pushes = 1
      /\ hist[j].crawlPushes =
           IF job[j].crawl_id # NoCrawl /\ CrawlHasCeiling(job[j].crawl_id)
           THEN 1 ELSE 0

(* ---------------------------- deferral scope -------------------------- *)
\* DeferSpec: one admitter, a tenant with ceiling 1 and a crawl with ceiling 1;
\* scrapes with and without a scrape timeout, and page jobs of the crawl
ShortTimeout == 30000

DeferDom ==
  [procs |-> {"p1"}, serial |-> TRUE, single |-> TRUE, jobs |-> MaxJobs,
   sizes |-> 1..MaxBatch, ticks |-> MaxTicks, direct |-> {FALSE},
   payloads |-> WithTimeout(AdHocJobs, {NoTimeout, ShortTimeout})
                \cup WithTimeout(PageJobs(NoRec), {ShortTimeout})]

DeferInit ==
  InitWith(DeferDom, Stores({Rec(FALSE, TRUE, 1)}), Tenants({Tenant(1, 1)}))

DeferSpec == DeferInit /\ [][Next]_vars

\* every entry parked in the deferred area of any tenant
DeferredEntries == UNION {Range(deferred[t]) : t \in Teams}

\* C12: every deferred job, deferred by submit_one or by submit_many, with the
\* verdict DEFER_TENANT or DEFER_CRAWL, has its payload marked with the
\* was-deferred flag before it is pushed to the tenant's deferred area.
C12_AsStated ==
  \A e \in DeferredEntries : e.data.concurrencyLimited

\* C13: the hold time of a deferred entry is the job's scrape timeout (60 000 ms
\* when the job gives none) when the job has no crawl_id and unbounded when it
\* has one; the entry carries the job id, the payload, the dispatch options and
\* the priority unchanged.
C13_HoldTime ==
  \A t \in Teams : \A i \in DOMAIN deferred[t] :
    LET e == deferred[t][i]
        pl == job[e.id]
    IN  /\ pl.team_id = t
        /\ e.holdForever <=> pl.crawl_id # NoCrawl
        /\ (pl.crawl_id = NoCrawl /\ pl.timeout = NoTimeout) => e.holdMs = 60000
        /\ (pl.crawl_id = NoCrawl /\ pl.timeout # NoTimeout) => e.holdMs = pl.timeout
        /\ e.data = pl
        /\ e.priority = pl.priority
        /\ e.opts = [priority |-> pl.priority, jobId |-> e.id]

\* the deferred area holds a scrape with a timeout of 30 s, held for 30 s, and a
\* page job with the same timeout that is held without limit
C13_Witness ==
  \E b, c \in DeferredEntries :
    /\ b.data.crawl_id = NoCrawl /\ b.data.timeout = 30000
    /\ ~b.holdForever /\ b.holdMs = 30000
    /\ c.data.crawl_id # NoCrawl /\ c.data.timeout = 30000 /\ c.holdForever

(* -------------------------- notification scope ------------------------ *)
\* the clock moves on by a week
WeekMs == 7 * 24 * 60 * 60 * 1000

\* (the clock stays within three weeks, which covers one whole window)
Week ==
  /\ ticks < dom.ticks
  /\ now < 3 * WeekMs
  /\ ticks' = ticks + 1
  /\ now' = now + WeekMs
  /\ UNCHANGED <<crawlStore, acuc, active, crawlActive, deferred, bull, job,
                 nextId, proc, lastSent, sendQ, emitted, dom, mirror, lookup, waitVars, errlog, hist>>

\* NotifySpec: two admitters saturate a tenant whose ceiling is 0 with single
\* scrapes and batches of MaxBatch scrapes, over three weeks; the sender may fail
NotifyDom ==
  [procs |-> Procs, serial |-> FALSE, single |-> TRUE, jobs |-> MaxJobs,
   sizes |-> {MaxBatch}, ticks |-> MaxTicks + 2, direct |-> {FALSE},
   payloads |-> AdHocJobs]

NotifyInit == InitWith(NotifyDom, Stores({NoRec}), Tenants({Tenant(0, 0)}))

NotifyStep(p) ==
  \/ StartOne(p)
  \/ TenantClean(p)
  \/ TenantCount(p)
  \/ CQCount(p)
  \/ AskGate(p)
  \/ DeferOne(p)
  \/ StartMany(p)
  \/ BulkTeam(p)
  \/ BulkClean(p)
  \/ BulkCount(p)
  \/ BulkAskGate(p)
  \/ BulkDefer(p)

NotifyNext == Week \/ Deliver \/ DeliverFail \/ \E p \in Procs : NotifyStep(p)

NotifySpec == NotifyInit /\ [][NotifyNext]_vars

C15_AsStated ==
  [][\A p \in Procs :
       (/\ proc[p].pc = "should"
        /\ proc'[p].pc = "defer"
        /\ job[proc[p].id].crawl_id # NoCrawl)
         => sendQ' = sendQ]_vars

\* C16: submit_many never requests a concurrency-limit notification when the
\* batch includes a job that carries a crawl_id or crawlerOptions, at whatever
\* position of the input that job is: the step of lines 328-333 taken for such
\* a batch hands nothing to the sender.
C16_AsStated ==
  [][\A p \in Procs :
       (/\ proc[p].pc = "bshould"
        /\ proc'[p].pc # "bshould"
        /\ \E i \in Range(proc[p].jobs) : isCrawlOrBatchScrape(job[i]))
         => sendQ' = sendQ]_vars

(* -------------------------- two-tenant scope -------------------------- *)
\* MultiSpec: one admitter submits batches of scrapes of two tenants and of page
\* jobs of t1's crawl c1 (max_concurrency 1); t1 has ceiling 2, t2 has ceiling 0
MultiDom ==
  [procs |-> {"p1"}, serial |-> TRUE, single |-> FALSE, jobs |-> MaxJobs,
   sizes |-> 1..MaxBatch, ticks |-> MaxTicks, direct |-> {FALSE},
   payloads |-> Payloads(Teams, {NoCrawl}, {"absent"}, {<<FALSE, FALSE>>}, {10})
                \cup PageJobs(NoRec)]

MultiInit ==
  InitWith(MultiDom, Stores({Rec(FALSE, TRUE, 1)}),
           {[t \in Teams |-> IF t = "t1" THEN Tenant(2, 2) ELSE Tenant(0, 0)]})

MultiSpec == MultiInit /\ [][BulkNext]_vars

\* C17: in submit_many the Notification Gate is invoked for a tenant only if
\* len(potentially_admissible) - free_tenant is greater than the tenant's
\* ceiling, forced-deferred jobs not counted: a request a bulk call makes for
\* tenant t is made while t's jobs are processed and t's own overflow exceeds
\* t's ceiling.
C17_AsStated ==
  [][\A p \in Procs : \A t \in Teams :
       (/\ proc[p].pc = "bshould"
        /\ proc'[p].pc # "bshould"
        /\ sendQ'[t] = sendQ[t] + 1)
         => /\ t = proc[p].team
            /\ Len(proc[p].potential) - HeadroomOf(p) > TenantCeiling(t)]_vars

\* the call that submitted job i is over
CallOver(i) ==
  /\ i < nextId
  /\ \A p \in Procs :
       proc[p].pc = "idle" \/ (proc[p].id # i /\ i \notin Range(proc[p].jobs))

\* C18: a failure of notification delivery is logged and never propagated: the
\* failing send changes no call, no verdict and nothing of the ledger or the
\* worker queue; no submission fails, and every job with a deferring verdict
\* is deferred when its call is over.
C18_DeliveryFailureLogged ==
  /\ [][errlog' # errlog
          => /\ errlog' = errlog + 1
             /\ UNCHANGED <<proc, hist, job, deferred, active, bull>>]_vars
  /\ [](\A i \in DOMAIN job :
          /\ hist[i].ret # "error"
          /\ (CallOver(i) /\ hist[i].verdict \in {"yes", "yes-crawl"})
               => i \in DeferredIds)

\* a send has failed, no event was emitted, and a single and a bulk submission
\* that asked for the event have deferred their jobs and ended
C18_Witness ==
  /\ errlog >= 1
  /\ \A t \in Teams : emitted[t] = 0
  /\ \A p \in Procs : proc[p].pc = "idle"
  /\ \E i, j \in DeferredIds :
       /\ hist[i].bulk /\ ~hist[j].bulk
       /\ hist[i].verdict = "yes" /\ hist[j].verdict = "yes"
       /\ hist[j].ret = DeferredReturn

(* ----------------------------- fault scope ---------------------------- *)
\* FaultSpec: one admitter submits scrapes and page jobs of crawl c1
\* (max_concurrency 2), singly and in batches to a tenant of ceiling 1, or in
\* batches to a tenant of ceiling 2;
\* every ledger write and the enqueue may fail; the sender is left out
FaultDom ==
  [procs |-> {"p1"}, serial |-> TRUE, single |-> TRUE, jobs |-> MaxJobs,
   sizes |-> 1..MaxBatch, ticks |-> MaxTicks, direct |-> {FALSE},
   payloads |-> AdHocJobs \cup PageJobs(NoRec)]

\* batches alone, the clock standing still
FaultBatchDom ==
  [FaultDom EXCEPT !.single = FALSE, !.ticks = 0]

FaultInit ==
  \/ InitWith(FaultDom, Stores({Rec(FALSE, TRUE, 2)}), Tenants({Tenant(1, 1)}))
  \/ InitWith(FaultBatchDom, Stores({Rec(FALSE, TRUE, 2)}),
              Tenants({Tenant(2, 2)}))

FaultStep(p) ==
  \/ Step(p)
  \/ AdmitPushActiveFail(p)
  \/ AdmitCrawlFail(p)
  \/ AdmitEnqueueFail(p)
  \/ DeferOneFail(p)
  \/ BulkDeferFail(p)

FaultNext == Tick \/ \E p \in Procs : FaultStep(p)

FaultSpec == FaultInit /\ [][FaultNext]_vars

\* the active entries of job i
EntriesOf(entries, i) == {e \in entries : e[1] = i}

\* C19: when the worker-queue enqueue fails after the active entries of the job
\* were written, the submission fails to the caller and the entries are not
\* rolled back: at the failure the tenant entry (and the crawl entry, when one
\* was written) is still in the ledger, the job is on no queue, and an active
\* entry leaves the ledger only once its 60-second TTL has expired.
C19_NoRollback ==
  /\ [](\A i \in DOMAIN job :
          hist[i].failedAt = "add"
            => /\ hist[i].ret = "error"
               /\ i \notin bull
               /\ i \notin DeferredIds
               /\ hist[i].pushes = 1)
  /\ [][\A i \in DOMAIN job :
          (hist'[i].failedAt = "add" /\ hist[i].failedAt # "add")
            => /\ EntriesOf(active'[job[i].team_id], i) # {}
               /\ hist[i].crawlPushes = 1
                    => EntriesOf(crawlActive'[job[i].crawl_id], i) # {}]_vars
  /\ [][/\ \A t \in Teams : \A e \in active[t] \ active'[t] :
             e[2] <= now
        /\ \A c \in CrawlIds : crawlActive[c] \subseteq crawlActive'[c]]_vars

\* the enqueue of a page job has failed, its call is over, and its tenant entry
\* and its crawl entry are in the ledger, not yet expired
C19_Witness ==
  \E i \in DOMAIN job :
    /\ hist[i].failedAt = "add" /\ hist[i].ret = "error"
    /\ job[i].crawl_id # NoCrawl
    /\ CallOver(i)
    /\ \E e \in EntriesOf(active[job[i].team_id], i) : e[2] > now
    /\ EntriesOf(crawlActive[job[i].crawl_id], i) # {}

\* C20: an error from a ledger write (push-active, crawl-push-active or
\* push-deferred) is fatal to the submission and surfaces to the caller; a job
\* whose push-active failed is never enqueued on the worker queue (nor is one
\* whose crawl-push-active failed, and one whose push-deferred failed is not
\* parked).
C20_LedgerErrorFatal ==
  \A i \in DOMAIN job :
    /\ hist[i].failedAt \in {"active", "crawl", "defer"}
         => hist[i].ret = "error" /\ i \notin bull
    /\ hist[i].failedAt = "active"
         => hist[i].pushes = 0 /\ EntriesOf(active[job[i].team_id], i) = {}
    /\ hist[i].failedAt = "defer" => i \notin DeferredIds

\* three submissions have failed, one at each ledger write
C20_Witness ==
  /\ \A p \in Procs : proc[p].pc = "idle"
  /\ \E i, j, k \in DOMAIN job :
       /\ hist[i].failedAt = "active"
       /\ hist[j].failedAt = "crawl"
       /\ hist[k].failedAt = "defer"

(* ------------------------ failing reads (C21) ------------------------- *)
\* The reads of the admission path are awaited without try/catch (lines 141,
\* 159, 161; 283, 310, 313): a read that rejects throws out of the call. The
\* defaults of lines 142-146 and 159 apply to a lookup that answers nothing.

\* the call of p ends in an error at read `at`, observed on the jobs ids
ReadThrow(p, at, ids) ==
  /\ hist' = [j \in DOMAIN job |->
        IF j \in ids THEN [hist[j] EXCEPT !.failedAt = at, !.ret = "error"]
        ELSE IF proc[p].kind = "many" /\ j \in Range(proc[p].jobs)
        THEN [hist[j] EXCEPT !.ret = "error"]
        ELSE hist[j]]
  /\ proc' = [proc EXCEPT ![p] = IdleProc]
  /\ UNCHANGED <<now, crawlStore, acuc, active, crawlActive, deferred, bull, job,
                 nextId, ticks, lastSent, sendQ, emitted, dom, mirror, lookup, waitVars, errlog>>

\* line 141: getCrawl rejects
CrawlLookupFail(p) ==
  /\ proc[p].pc = "crawl"
  /\ ReadThrow(p, "getCrawl", {proc[p].id})

\* line 159: getACUCTeam rejects
TenantLookupFail(p) ==
  /\ proc[p].pc = "tenant"
  /\ ReadThrow(p, "getACUCTeam", {proc[p].id})

\* line 161: getConcurrencyLimitActiveJobs rejects
CountActiveFail(p) ==
  /\ proc[p].pc = "count"
  /\ ReadThrow(p, "count-active", {proc[p].id})

\* line 283: getCrawl rejects for the next crawl bucket
BulkCrawlLookupFail(p) ==
  /\ proc[p].pc = "bucket"
  /\ ReadThrow(p, "getCrawl",
               Range(CrawlJobs(TeamJobs(proc[p].jobs, proc[p].team),
                               Head(proc[p].buckets))))

\* line 310: getACUCTeam rejects
BulkTenantLookupFail(p) ==
  /\ proc[p].pc = "btenant"
  /\ ReadThrow(p, "getACUCTeam", Range(TeamJobs(proc[p].jobs, proc[p].team)))

\* line 313: getConcurrencyLimitActiveJobs rejects
BulkCountActiveFail(p) ==
  /\ proc[p].pc = "bcount"
  /\ ReadThrow(p, "count-active", Range(TeamJobs(proc[p].jobs, proc[p].team)))

\* LookupSpec: one admitter submits scrapes and page jobs of crawl c1
\* (max_concurrency 1), singly and in batches, to a tenant of ceiling 1; every
\* read of the admission path may fail
LookupDom ==
  [procs |-> {"p1"}, serial |-> TRUE, single |-> TRUE, jobs |-> MaxJobs,
   sizes |-> 1..MaxBatch, ticks |-> 0, direct |-> {FALSE},
   payloads |-> AdHocJobs \cup PageJobs(NoRec)]

LookupInit ==
  InitWith(LookupDom, Stores({Rec(FALSE, TRUE, 1)}), Tenants({Tenant(1, 1)}))

LookupStep(p) ==
  \/ Step(p)
  \/ CrawlLookupFail(p)
  \/ TenantLookupFail(p)
  \/ CountActiveFail(p)
  \/ BulkCrawlLookupFail(p)
  \/ BulkTenantLookupFail(p)
  \/ BulkCountActiveFail(p)

LookupNext == Deliver \/ \E p \in Procs : LookupStep(p)

LookupSpec == LookupInit /\ [][LookupNext]_vars

\* C21: a read error localized to the crawl lookup or the tenant lookup during
\* admission does not fail the submission (admission continues with the
\* conservative defaults); only a read error on count-active fails it.
C21_AsStated ==
  \A i \in DOMAIN job :
    /\ hist[i].failedAt \in {"getCrawl", "getACUCTeam"} => hist[i].ret # "error"
    /\ hist[i].failedAt = "count-active" => hist[i].ret = "error"

(* ----------------------- waitForJob (363-419) ------------------------- *)
\* Timers fire when their time has come and the clock does not pass a timer that
\* is due; an await of the queue or of the blob store takes no time.

TtlOneMinute(timeout) == IF timeout = NoTimeout THEN 60000 ELSE timeout

\* timeout ?? 180000
Ttl(timeout) == IF timeout = NoTimeout THEN DefaultWaitTimeout ELSE timeout

RethrowOriginal(e) == e

\* lines 389-402: what the catch block throws for e
Rethrow(e) ==
  IF e.class \in TransportableClasses THEN e
  ELSE IF e.class \in ErrorClasses
  THEN LET x == deserializeTransportableError(e.message)
       IN  IF x # NoError THEN x ELSE e
  ELSE e

SettleOpen(wr, o) == [wr EXCEPT !.outcome = o, !.sleepUntil = NoTimer]

\* the call of wr is over with outcome o
Settle(wr, o) == [wr EXCEPT !.pc = "done", !.outcome = o, !.sleepUntil = NoTimer]

\* lines 383-387: the deadline timer, set at time t and only for a timeout that
\* is not null, fires when the rest of the budget has passed
Deadline(timeout, start, t) ==
  IF timeout # NoTimeout THEN t + Max(0, timeout - (t - start)) ELSE NoTimer

\* line 382: job.waitUntilFinished(queueEvents, ttl) gives up ttl after its call,
\* and never when ttl is 0
LibDeadline(timeout, t) ==
  IF Ttl(timeout) # 0 THEN t + Ttl(timeout) ELSE NoTimer

\* lines 379-388 at time t: with a job, both sides of the race start; with null
\* for a job, job.waitUntilFinished throws a TypeError inside the try
EnterRace(wr, t) ==
  IF wr.ref = "null"
  THEN Settle(wr, Raises(Rethrow(Thrown("TypeError", "",
                Plain("Cannot read properties of null")))))
  ELSE [wr EXCEPT !.pc = "race", !.waited = TRUE, !.sleepUntil = NoTimer,
                  !.libTimer = LibDeadline(wr.timeout, t),
                  !.timer = Deadline(wr.timeout, wr.start, t)]

\* lines 368-371: a caller waits for job id, by handle, by id, or with the null
\* that a deferring submission returned
BeginWait(w, ref, id, timeout) ==
  LET wr == [IdleWait EXCEPT !.ref = ref, !.id = id, !.timeout = timeout,
                             !.start = now]
  IN  wait' = [wait EXCEPT ![w] =
        IF ref = "id" /\ id \notin bull
        THEN [wr EXCEPT !.pc = "sleep", !.sleepUntil = now + PollMs]
        ELSE EnterRace(wr, now)]

StartWait(w) ==
  /\ wait[w].pc = "idle"
  /\ \E ref \in dom.refs, id \in dom.waitIds, timeout \in dom.timeouts :
       /\ ref = "handle" => id \in bull
       /\ BeginWait(w, ref, id, timeout)
  /\ UNCHANGED <<now, crawlStore, acuc, active, crawlActive, deferred, bull, job,
                 nextId, ticks, proc, lastSent, sendQ, emitted, dom, mirror, lookup, errlog,
                 queueJob, blob, hist>>

\* lines 374-377: the sleep of 500 ms is over; read the job again, then give up
\* when the budget is spent, whatever the read gave
Poll(w) ==
  /\ wait[w].pc = "sleep"
  /\ now >= wait[w].sleepUntil
  /\ LET wr == [wait[w] EXCEPT !.polls = @ + 1]
     IN  wait' = [wait EXCEPT ![w] =
           IF now - wr.start > Ttl(wr.timeout)
           THEN Settle(wr, Raises(ScrapeJobTimeoutError(InQueueText)))
           ELSE IF wr.id \in bull THEN EnterRace(wr, now)
           ELSE [wr EXCEPT !.sleepUntil = now + PollMs]]
  /\ UNCHANGED <<now, crawlStore, acuc, active, crawlActive, deferred, bull, job,
                 nextId, ticks, proc, lastSent, sendQ, emitted, dom, mirror, lookup, errlog,
                 queueJob, blob, hist>>

\* lines 381-382, 404-406: the job has completed; waitUntilFinished resolves with
\* its return value and drops its own timer
Finished(w) ==
  /\ wait[w].pc = "race"
  /\ queueJob[wait[w].id].state = "completed"
  /\ LET doc == queueJob[wait[w].id].returnvalue
         wr == [wait[w] EXCEPT !.libTimer = NoTimer]
     IN  wait' = [wait EXCEPT ![w] =
           IF doc # "" THEN Settle(wr, Returns(doc))
           ELSE [wr EXCEPT !.pc = "gcs"]]
  /\ UNCHANGED <<now, crawlStore, acuc, active, crawlActive, deferred, bull, job,
                 nextId, ticks, proc, lastSent, sendQ, emitted, dom, mirror, lookup, errlog,
                 queueJob, blob, hist>>

\* lines 389-402: the job has failed; waitUntilFinished rejects
Failed(w) ==
  /\ wait[w].pc = "race"
  /\ queueJob[wait[w].id].state = "failed"
  /\ wait' = [wait EXCEPT ![w] =
        Settle([@ EXCEPT !.libTimer = NoTimer],
               Raises(Rethrow(queueJob[wait[w].id].error)))]
  /\ UNCHANGED <<now, crawlStore, acuc, active, crawlActive, deferred, bull, job,
                 nextId, ticks, proc, lastSent, sendQ, emitted, dom, mirror, lookup, errlog,
                 queueJob, blob, hist>>

\* lines 384-387: the deadline timer fires while the race is open
DeadlineFires(w) ==
  /\ wait[w].pc = "race"
  /\ wait[w].timer # NoTimer
  /\ now >= wait[w].timer
  /\ wait' = [wait EXCEPT ![w] =
        Settle([@ EXCEPT !.timer = NoTimer],
               Raises(Rethrow(ScrapeJobTimeoutError(DeadlineText(wait[w].ref)))))]
  /\ UNCHANGED <<now, crawlStore, acuc, active, crawlActive, deferred, bull, job,
                 nextId, ticks, proc, lastSent, sendQ, emitted, dom, mirror, lookup, errlog,
                 queueJob, blob, hist>>

\* line 382: waitUntilFinished gives up after its ttl with an Error of its own;
\* a deadline timer due at the same time was set first and fires first
LibTimeout(w) ==
  /\ wait[w].pc = "race"
  /\ wait[w].libTimer # NoTimer
  /\ now >= wait[w].libTimer
  /\ wait[w].timer = NoTimer \/ now < wait[w].timer
  /\ wait' = [wait EXCEPT ![w] =
        Settle([@ EXCEPT !.libTimer = NoTimer],
               Raises(Rethrow(GenericError(
                 Plain("Job wait timed out before finishing")))))]
  /\ UNCHANGED <<now, crawlStore, acuc, active, crawlActive, deferred, bull, job,
                 nextId, ticks, proc, lastSent, sendQ, emitted, dom, mirror, lookup, errlog,
                 queueJob, blob, hist>>

\* a timer of a race that is already settled fires: nothing listens (no
\* clearTimeout in lines 379-402)
StaleTimer(w) ==
  /\ wait[w].pc # "race"
  /\ \/ /\ wait[w].timer # NoTimer /\ now >= wait[w].timer
        /\ wait' = [wait EXCEPT ![w].timer = NoTimer]
     \/ /\ wait[w].libTimer # NoTimer /\ now >= wait[w].libTimer
        /\ wait' = [wait EXCEPT ![w].libTimer = NoTimer]
  /\ UNCHANGED <<now, crawlStore, acuc, active, crawlActive, deferred, bull, job,
                 nextId, ticks, proc, lastSent, sendQ, emitted, dom, mirror, lookup, errlog,
                 queueJob, blob, hist>>

RemoveAlways(j) == TRUE

\* line 414: job.data?.internalOptions?.zeroDataRetention
RemoveAfterRead(j) == j.zeroDataRetention

\* lines 406-412: no inline document; read the blob store by job id
ReadGCS(w) ==
  /\ wait[w].pc = "gcs"
  /\ LET docs == blob[wait[w].id]
         wr == [wait[w] EXCEPT !.blobReads = @ + 1]
     IN  wait' = [wait EXCEPT ![w] =
           IF ~docs.present \/ docs.docs = <<>>
           THEN Settle(wr, Raises(GenericError(Plain("Job not found in GCS"))))
           ELSE IF RemoveAfterRead(queueJob[wr.id])
           THEN [wr EXCEPT !.pc = "remove", !.doc = docs.docs[1]]
           ELSE Settle(wr, Returns(docs.docs[1]))]
  /\ UNCHANGED <<now, crawlStore, acuc, active, crawlActive, deferred, bull, job,
                 nextId, ticks, proc, lastSent, sendQ, emitted, dom, mirror, lookup, errlog,
                 queueJob, blob, hist>>

\* lines 414-416: removeJobFromGCS for a zero-data-retention job, then return
RemoveGCS(w) ==
  /\ wait[w].pc = "remove"
  /\ blob' = [blob EXCEPT ![wait[w].id] = NoBlob]
  /\ wait' = [wait EXCEPT ![w] =
        Settle([@ EXCEPT !.blobDeletes = @ + 1], Returns(@.doc))]
  /\ UNCHANGED <<now, crawlStore, acuc, active, crawlActive, deferred, bull, job,
                 nextId, ticks, proc, lastSent, sendQ, emitted, dom, mirror, lookup, errlog,
                 queueJob, hist>>

(* --------------------- the worker queue and the clock ----------------- *)
\* a job appears in the worker queue (enqueued by an admitter or promoted)
Materialize ==
  /\ \E id \in dom.waitIds, zdr \in BOOLEAN :
       /\ id \notin bull
       /\ bull' = bull \cup {id}
       /\ queueJob' = [queueJob EXCEPT ![id] =
             [NoQueueJob EXCEPT !.state = "waiting", !.zeroDataRetention = zdr]]
  /\ UNCHANGED <<now, crawlStore, acuc, active, crawlActive, deferred, job,
                 nextId, ticks, proc, lastSent, sendQ, emitted, dom, mirror, lookup, errlog, wait,
                 blob, hist>>

\* what a worker leaves behind for a finished job: the inline document, or
\* nothing inline and the documents in the blob store, or nothing at all
WorkerResults ==
  {<<"inline", NoBlob>>,
   <<"", [present |-> TRUE, docs |-> <<"first", "second">>]>>,
   <<"", [present |-> TRUE, docs |-> <<>>]>>,
   <<"", NoBlob>>}

\* a worker completes a job of the queue
Complete ==
  /\ \E id \in dom.waitIds, r \in WorkerResults :
       /\ id \in bull
       /\ queueJob[id].state \notin {"completed", "failed"}
       /\ queueJob' = [queueJob EXCEPT ![id].state = "completed",
                                       ![id].returnvalue = r[1]]
       /\ blob' = [blob EXCEPT ![id] = r[2]]
  /\ UNCHANGED <<now, crawlStore, acuc, active, crawlActive, deferred, bull, job,
                 nextId, ticks, proc, lastSent, sendQ, emitted, dom, mirror, lookup, errlog, wait,
                 hist>>

\* what waitUntilFinished may reject with when the job fails
FailureEvents ==
  {TransportableError("SCRAPE_SSL_ERROR", "bad certificate"),
   GenericError(Serialized("SCRAPE_DNS_ERROR", "no such host")),
   GenericError(Serialized("NOT_A_CODE", "no such host")),
   GenericError(Plain("boom")),
   Thrown("string", "", Plain("boom"))}

\* a worker fails a job of the queue
Fail ==
  /\ \E id \in dom.waitIds, e \in FailureEvents :
       /\ id \in bull
       /\ queueJob[id].state \notin {"completed", "failed"}
       /\ queueJob' = [queueJob EXCEPT ![id].state = "failed", ![id].error = e]
  /\ UNCHANGED <<now, crawlStore, acuc, active, crawlActive, deferred, bull, job,
                 nextId, ticks, proc, lastSent, sendQ, emitted, dom, mirror, lookup, errlog, wait,
                 blob, hist>>

\* the timers that are set
Timers ==
  UNION {{wait[w].sleepUntil, wait[w].timer, wait[w].libTimer} \ {NoTimer}
           : w \in Waiters}

\* the clock moves to the next timer
Advance ==
  /\ Timers # {}
  /\ \A t \in Timers : t > now
  /\ now' = CHOOSE t \in Timers : \A u \in Timers : t <= u
  /\ UNCHANGED <<crawlStore, acuc, active, crawlActive, deferred, bull, job,
                 nextId, ticks, proc, lastSent, sendQ, emitted, dom, mirror, lookup, errlog,
                 waitVars, hist>>

WaitStep(w) ==
  \/ StartWait(w)
  \/ Poll(w)
  \/ Finished(w)
  \/ Failed(w)
  \/ DeadlineFires(w)
  \/ LibTimeout(w)
  \/ StaleTimer(w)
  \/ ReadGCS(w)
  \/ RemoveGCS(w)

WaitNext == Advance \/ Materialize \/ Complete \/ Fail \/ \E w \in Waiters : WaitStep(w)

\* WaitSpec: one caller waits for a job, by handle or by id, with no timeout or
\* with one; the job may appear in the queue, complete or fail at any time
ShortWait == 200
LongWait == 1000

WaitDom ==
  [procs |-> {}, serial |-> TRUE, single |-> FALSE, jobs |-> 1, sizes |-> {},
   ticks |-> 0, direct |-> {FALSE}, payloads |-> {}, refs |-> {"handle", "id"},
   waitIds |-> {1}, timeouts |-> {NoTimeout, 0, ShortWait, LongWait}]

WaitInit == InitWith(WaitDom, Stores({NoRec}), Tenants({NoTenant}))

WaitSpec == WaitInit /\ [][WaitNext]_vars

\* the event loop runs every timer that is due and every continuation that is
\* ready, and time passes
WaitFair ==
  /\ WF_vars(Advance)
  /\ \A w \in Waiters :
       /\ WF_vars(Poll(w)) /\ WF_vars(Finished(w)) /\ WF_vars(Failed(w))
       /\ WF_vars(DeadlineFires(w)) /\ WF_vars(LibTimeout(w))
       /\ WF_vars(StaleTimer(w)) /\ WF_vars(ReadGCS(w)) /\ WF_vars(RemoveGCS(w))

WaitLiveSpec == WaitSpec /\ WaitFair

\* the budget of a call as the claims state it: the timeout, 180 000 ms when
\* none is given
BudgetOf(w) == IF wait[w].timeout = NoTimeout THEN 180000 ELSE wait[w].timeout

\* C22: when wait is called with a job id that never materializes in the worker
\* queue, it polls every 500 ms and fails with the timeout-in-queue error once
\* the timeout (180 000 ms when none is given) has elapsed; on this path it never
\* waits on a completion event and never reads or deletes a blob.
C22_TimeoutInQueue ==
  /\ [](\A w \in Waiters :
          (wait[w].pc # "idle" /\ wait[w].ref = "id" /\ wait[w].id \notin bull)
            => /\ ~wait[w].waited
               /\ wait[w].blobReads = 0 /\ wait[w].blobDeletes = 0
               /\ wait[w].pc \in {"sleep", "done"}
               /\ wait[w].pc = "sleep"
                    => /\ wait[w].sleepUntil = wait[w].start + 500 * (wait[w].polls + 1)
                       /\ now <= wait[w].sleepUntil
                       /\ wait[w].sleepUntil <= wait[w].start + BudgetOf(w) + 500
               /\ wait[w].pc = "done"
                    => /\ wait[w].outcome = Raises(ScrapeJobTimeoutError(InQueueText))
                       /\ now - wait[w].start > BudgetOf(w)
                       /\ now - wait[w].start <= BudgetOf(w) + 500)
  /\ \A w \in Waiters :
       (wait[w].pc = "sleep") ~> (wait[w].pc = "done" \/ wait[w].id \in bull)

\* a wait without a timeout for an id that is not in the queue has failed with
\* the timeout-in-queue error, after 361 polls
C22_Witness ==
  \E w \in Waiters :
    /\ wait[w].ref = "id" /\ wait[w].id \notin bull
    /\ wait[w].timeout = NoTimeout
    /\ wait[w].polls = 361
    /\ wait[w].outcome = Raises(ScrapeJobTimeoutError(InQueueText))

\* C23: when the job has materialized but no completion event arrives before the
\* deadline (the caller's timeout counted from the start of the call, 180 000 ms
\* when none is given), wait fails with SCRAPE_TIMEOUT, for every timeout value
\* and for a job given by handle or by id.
C23_AsStated ==
  \A w \in Waiters :
    (wait[w].waited /\ queueJob[wait[w].id].state = "waiting")
      => /\ now - wait[w].start > BudgetOf(w) => wait[w].pc = "done"
         /\ wait[w].pc = "done"
              => /\ wait[w].outcome.kind = "error"
                 /\ wait[w].outcome.error.class = "ScrapeJobTimeoutError"
                 /\ wait[w].outcome.error.code = "SCRAPE_TIMEOUT"

\* C24: every call of wait terminates with exactly one outcome, one returned
\* document or one raised error, never both and never none, whatever the order
\* of the job's appearance in the queue, its completion and the deadline.
C24_ExactlyOneOutcome ==
  /\ [](\A w \in Waiters :
          /\ wait[w].pc = "done" <=> wait[w].outcome.kind # "none"
          /\ wait[w].outcome.kind \in {"none", "doc", "error"}
          /\ wait[w].outcome.kind = "doc"
               => wait[w].outcome.doc # "" /\ wait[w].outcome.error = NoError
          /\ wait[w].outcome.kind = "error"
               => wait[w].outcome.doc = "" /\ wait[w].outcome.error # NoError)
  /\ [][\A w \in Waiters :
          wait[w].outcome.kind # "none" => wait'[w].outcome = wait[w].outcome]_vars
  /\ \A w \in Waiters : (wait[w].pc # "idle") ~> (wait[w].pc = "done")

\* a call by id polled, saw the job, ended on its deadline, and the job
\* completed afterwards: the outcome is still the timeout
C24_Witness ==
  \E w \in Waiters :
    /\ wait[w].ref = "id" /\ wait[w].polls >= 1 /\ wait[w].waited
    /\ wait[w].outcome = Raises(ScrapeJobTimeoutError(DeadlineText("id")))
    /\ queueJob[wait[w].id].state = "completed"

\* C25: no deadline timer of a wait call is still pending after that call has
\* produced its outcome (as it must be when the caller aborts the wait, which
\* also ends the polling).
C25_AsStated ==
  \A w \in Waiters :
    wait[w].outcome.kind # "none"
      => wait[w].timer = NoTimer /\ wait[w].sleepUntil = NoTimer

\* C26: when the failure of a waited job reaches wait, a transportable error is
\* raised again unchanged; an error whose message deserializes to a
\* transportable error is raised as that typed error, with the same kind and
\* message; any other failure is raised as it came. A timeout of wait itself is
\* never converted.
C26_ErrorsRoundTrip ==
  [][\A w \in Waiters :
       /\ Failed(w) =>
            LET e == queueJob[wait[w].id].error
                o == wait'[w].outcome
            IN  /\ o.kind = "error"
                /\ IF e.class = "TransportableError" THEN o.error = e
                   ELSE IF e.class = "Error" /\ e.message.ser
                           /\ e.message.code \in {"SCRAPE_SSL_ERROR", "SCRAPE_DNS_ERROR"}
                   THEN /\ o.error.class = "TransportableError"
                        /\ o.error.code = e.message.code
                        /\ o.error.message = Plain(e.message.text)
                   ELSE o.error = e
       /\ DeadlineFires(w) =>
            wait'[w].outcome = Raises(ScrapeJobTimeoutError(DeadlineText(wait[w].ref)))
       /\ (Poll(w) /\ wait'[w].pc = "done") =>
            wait'[w].outcome = Raises(ScrapeJobTimeoutError(InQueueText))]_vars

\* a job failed with a generic error whose message is a serialized DNS error,
\* and wait raised the typed error
C26_Witness ==
  \E w \in Waiters :
    /\ wait[w].pc = "done"
    /\ queueJob[wait[w].id].error = GenericError(Serialized("SCRAPE_DNS_ERROR", "no such host"))
    /\ wait[w].outcome = Raises(TransportableError("SCRAPE_DNS_ERROR", "no such host"))

\* C27: when a waited job completes with an empty inline result, wait reads the
\* blob store by job id and returns the first stored document; when the blob is
\* absent or empty it raises the result-not-found error; the blob is deleted
\* only for a zero-data-retention job and only after a successful read; the
\* blob store is never read when the inline result is present.
C27_BlobFallback ==
  /\ [](\A w \in Waiters :
          LET j == queueJob[wait[w].id]
          IN  /\ wait[w].blobReads \in {0, 1} /\ wait[w].blobDeletes \in {0, 1}
              /\ wait[w].blobReads = 1
                   => j.state = "completed" /\ j.returnvalue = ""
              /\ wait[w].blobDeletes = 1
                   => /\ j.zeroDataRetention /\ wait[w].blobReads = 1
                      /\ wait[w].outcome = Returns("first")
              /\ (wait[w].outcome.kind = "doc" /\ j.returnvalue # "")
                   => wait[w].outcome.doc = j.returnvalue /\ wait[w].blobReads = 0
              /\ (wait[w].outcome.kind = "doc" /\ j.returnvalue = "")
                   => wait[w].outcome.doc = "first" /\ wait[w].blobReads = 1)
  /\ [][\A w \in Waiters :
          /\ (Finished(w) /\ queueJob[wait[w].id].returnvalue = "")
               => wait'[w].outcome.kind = "none" /\ wait'[w].pc = "gcs"
          /\ ReadGCS(w) =>
               LET b == blob[wait[w].id]
               IN  /\ blob' = blob
                   /\ IF ~b.present \/ Len(b.docs) = 0
                      THEN wait'[w].outcome =
                             Raises(GenericError(Plain("Job not found in GCS")))
                      ELSE IF queueJob[wait[w].id].zeroDataRetention
                      THEN wait'[w].outcome.kind = "none" /\ wait'[w].doc = b.docs[1]
                      ELSE wait'[w].outcome = Returns(b.docs[1])
          /\ \A i \in DOMAIN blob :
               (wait[w].id = i /\ blob[i].present /\ ~blob'[i].present)
                 => /\ queueJob[i].zeroDataRetention
                    /\ wait[w].blobReads = 1
                    /\ wait'[w].outcome = Returns(blob[i].docs[1])]_vars

\* a zero-data-retention job completed with nothing inline; wait read the blob,
\* deleted it and returned the first document
C27_Witness ==
  \E w \in Waiters :
    /\ wait[w].pc = "done"
    /\ queueJob[wait[w].id].zeroDataRetention
    /\ queueJob[wait[w].id].returnvalue = ""
    /\ wait[w].blobReads = 1 /\ wait[w].blobDeletes = 1
    /\ blob[wait[w].id] = NoBlob
    /\ wait[w].outcome = Returns("first")

(* ------------------- submit one job, then wait for it ----------------- *)
\* a caller hands what addScrapeJob returned for job i, the Job or null, to
\* waitForJob
WaitOnReturn(w) ==
  /\ wait[w].pc = "idle"
  /\ \E i \in DOMAIN hist, timeout \in dom.timeouts :
       /\ ~hist[i].bulk
       /\ hist[i].ret \in {"handle", DeferredReturn}
       /\ BeginWait(w, hist[i].ret, i, timeout)
  /\ UNCHANGED <<now, crawlStore, acuc, active, crawlActive, deferred, bull, job,
                 nextId, ticks, proc, lastSent, sendQ, emitted, dom, mirror, lookup, errlog,
                 queueJob, blob, hist>>

RoundStep(p) ==
  \/ StartOne(p)
  \/ TenantClean(p)
  \/ TenantCount(p)
  \/ CQCount(p)
  \/ AskGate(p)
  \/ DeferOne(p)
  \/ AdmitPushActive(p)
  \/ AdmitEnqueue(p)

\* the jobs submitted here are not marked zero-data-retention
RoundWait(w) ==
  \/ WaitOnReturn(w)
  \/ Finished(w)
  \/ Failed(w)
  \/ DeadlineFires(w)
  \/ StaleTimer(w)
  \/ ReadGCS(w)

RoundNext ==
  \/ Advance \/ Complete \/ Fail \/ Deliver
  \/ \E p \in Procs : RoundStep(p)
  \/ \E w \in Waiters : RoundWait(w)

\* RoundTripSpec: one admitter submits scrapes one at a time to a tenant of
\* ceiling 1; a caller waits, with a timeout, on what a submission returned;
\* workers complete or fail the jobs of the queue
RoundDom ==
  [procs |-> {"p1"}, serial |-> TRUE, single |-> TRUE, jobs |-> MaxJobs,
   sizes |-> {}, ticks |-> 0, direct |-> {FALSE}, payloads |-> AdHocJobs,
   refs |-> {}, waitIds |-> 1..MaxJobs, timeouts |-> {ShortWait, LongWait}]

RoundInit == InitWith(RoundDom, Stores({NoRec}), Tenants({Tenant(1, 1)}))

RoundTripSpec == RoundInit /\ [][RoundNext]_vars

\* what a direct execution of job i gives: the document the worker produced,
\* inline or as the first document of the blob
DirectResult(i) ==
  IF queueJob[i].returnvalue # "" THEN queueJob[i].returnvalue ELSE "first"

\* C28: for any job j, wait(submit_one(j)) yields what the worker made of j, its
\* document or its failure, also when submit_one deferred j and returned no
\* handle; short of that only a timeout or a lost blob ends the wait.
C28_AsStated ==
  \A w \in Waiters :
    wait[w].pc = "done"
      => LET i == wait[w].id
             o == wait[w].outcome
         IN  \/ /\ o.kind = "doc" /\ queueJob[i].state = "completed"
                /\ o.doc = DirectResult(i)
             \/ /\ o.kind = "error" /\ queueJob[i].state = "failed"
                /\ o.error.message.text = queueJob[i].error.message.text
             \/ /\ o.kind = "error"
                /\ o.error.class = "ScrapeJobTimeoutError"
             \/ /\ o.kind = "error" /\ queueJob[i].state = "completed"
                /\ o.error = GenericError(Plain("Job not found in GCS"))

(* ----------------------- the drainer and the waiter ------------------- *)
\* The drainer is not part of queue-jobs.ts; it is modelled from its
\* description: promote the first parked entry when the tenant has a free slot,
\* drop an entry whose hold deadline has passed.

\* the hold deadline of an entry parked at time 0
HoldDeadline(e) == 0 + e.holdMs

Expired(e) == ~e.holdForever /\ HoldDeadline(e) < now

\* clean-expired, free = max(ceiling - count-active, 0), pop-deferred, the
\* admit path: a fresh active entry and the job in the worker queue
Promote(t) ==
  /\ deferred[t] # <<>>
  /\ LET e == Head(deferred[t])
         live == CleanOld(active[t], now)
         ceiling == TeamConcurrency(acuc[t], e.data.from_extract)
     IN  /\ ~Expired(e)
         /\ FreeSlots(ceiling, Cardinality(live)) > 0
         /\ active' = [active EXCEPT ![t] = PushActive(live, e.id, ActiveTTL, now)]
         /\ bull' = bull \cup {e.id}
  /\ deferred' = [deferred EXCEPT ![t] = Tail(@)]
  /\ UNCHANGED <<now, crawlStore, acuc, crawlActive, job, nextId, ticks, proc,
                 lastSent, sendQ, emitted, dom, mirror, lookup, waitVars, errlog, hist>>

\* drop the entries that timed out while parked
Drop(t) ==
  /\ \E i \in DOMAIN deferred[t] : Expired(deferred[t][i])
  /\ deferred' = [deferred EXCEPT ![t] = SelectSeq(@, LAMBDA e : ~Expired(e))]
  /\ UNCHANGED <<now, crawlStore, acuc, active, crawlActive, bull, job, nextId,
                 ticks, proc, lastSent, sendQ, emitted, dom, mirror, lookup, waitVars, errlog,
                 hist>>

\* every submission is made at time 0
HoldStep(p) == now = 0 /\ RoundStep(p)

\* a slot frees after 60 s at the earliest, so a race is only entered by a
\* call without a timeout
HoldWait(w) ==
  \/ StartWait(w)
  \/ Poll(w)
  \/ Finished(w)
  \/ Failed(w)
  \/ LibTimeout(w)
  \/ ReadGCS(w)

HoldNext ==
  \/ Advance \/ Complete \/ Fail
  \/ \E t \in Teams : Promote(t) \/ Drop(t)
  \/ \E p \in Procs : HoldStep(p)
  \/ \E w \in Waiters : HoldWait(w)

\* HoldSpec: two scrapes with a scrape timeout of 30 s or none are submitted at
\* time 0 to a tenant of ceiling 1; a caller waits for the second one by its id,
\* with a timeout of 30 s or none; the drainer promotes and drops
HoldDom ==
  [procs |-> {"p1"}, serial |-> TRUE, single |-> TRUE, jobs |-> 2,
   sizes |-> {}, ticks |-> 0, direct |-> {FALSE},
   payloads |-> WithTimeout(AdHocJobs, {NoTimeout, ShortTimeout}),
   refs |-> {"id"}, waitIds |-> {2}, timeouts |-> {NoTimeout, ShortTimeout}]

HoldInit == InitWith(HoldDom, Stores({NoRec}), Tenants({Tenant(1, 1)}))

HoldSpec == HoldInit /\ [][HoldNext]_vars

\* C29: every deferred job without a crawl is, within its hold deadline (its
\* scrape timeout, 60 000 ms when it has none; one poll of 500 ms is allowed for
\* the caller to see it), either promoted to the worker queue or failed with a
\* timeout that the caller waiting for it observes.
C29_AsStated ==
  \A w \in Waiters :
    (/\ wait[w].pc # "idle" /\ wait[w].ref = "id"
     /\ hist[wait[w].id].ret = DeferredReturn
     /\ job[wait[w].id].crawl_id = NoCrawl
     /\ now > (IF job[wait[w].id].timeout = NoTimeout THEN 60000
               ELSE job[wait[w].id].timeout) + 500)
      => \/ wait[w].id \in bull
         \/ /\ wait[w].pc = "done"
            /\ wait[w].outcome.kind = "error"
            /\ wait[w].outcome.error.class = "ScrapeJobTimeoutError"

(* ------------------------- isolation of tenants ----------------------- *)
\* IsolationSpec: one admitter submits batches that mix scrapes and extract
\* jobs of two tenants and page jobs of t1's crawl c1 (max_concurrency 1); t1
\* has ceiling 2 for crawl mode and 1 for extract mode, t2 has ceiling 0
IsolationDom ==
  [procs |-> {"p1"}, serial |-> TRUE, single |-> FALSE, jobs |-> MaxJobs,
   sizes |-> 1..MaxBatch, ticks |-> 0, direct |-> {FALSE},
   payloads |-> Payloads(Teams, {NoCrawl}, {"absent"},
                         {<<FALSE, FALSE>>, <<TRUE, TRUE>>}, {10})
                \cup PageJobs(NoRec)]

IsolationInit ==
  InitWith(IsolationDom, Stores({Rec(FALSE, TRUE, 1)}),
           {[t \in Teams |-> IF t = "t1" THEN Tenant(2, 1) ELSE Tenant(0, 0)]})

IsolationNext == Deliver \/ \E p \in Procs : BulkStep(p)

IsolationSpec == IsolationInit /\ [][IsolationNext]_vars

\* the jobs of the tenant that call p is processing, in input order
OwnJobs(p) == TeamJobs(proc[p].jobs, proc[p].team)

\* C30: tenants are isolated in a bulk submission: what the call does for tenant
\* T is what it would do for a batch of T's jobs alone. The ceiling applied to T
\* is read for the mode of T's own first job; T's gate is asked exactly when T's
\* own overflow exceeds that ceiling and T's own first job is no crawl or batch
\* scrape; and only T is notified while T's jobs are processed.
C30_AsStated ==
  [][\A p \in Procs :
       /\ (proc[p].pc = "btenant" /\ proc'[p].pc = "bcount")
            => proc'[p].maxInner =
                 TeamConcurrency(acuc[proc[p].team], job[OwnJobs(p)[1]].from_extract)
       /\ (proc[p].pc = "bcount" /\ proc'[p].pc # "bcount")
            => (proc'[p].pc = "bshould"
                 <=> /\ Len(proc[p].potential)
                          - Max(proc[p].maxInner
                                  - Cardinality({e \in active[proc[p].team] :
                                                   e[2] > proc[p].now}), 0)
                          > proc[p].maxInner
                     /\ ~isCrawlOrBatchScrape(job[OwnJobs(p)[1]]))
       /\ (proc[p].pc = "bshould" /\ proc'[p].pc # "bshould")
            => \A t \in Teams : sendQ'[t] # sendQ[t] => t = proc[p].team]_vars

(* ------------------------- the mode of the ceiling -------------------- *)
\* ModeSpec: one admitter submits, singly and in batches, scrapes of tenant t1
\* that carry every combination of is_extract and from_extract; t1 has ceiling 2
\* in crawl mode and 1 in extract mode
ModeDom ==
  [procs |-> {"p1"}, serial |-> TRUE, single |-> TRUE, jobs |-> MaxJobs,
   sizes |-> 1..MaxBatch, ticks |-> 0, direct |-> {FALSE},
   payloads |-> Payloads({"t1"}, {NoCrawl}, {"absent"},
                         {<<FALSE, FALSE>>, <<TRUE, FALSE>>, <<FALSE, TRUE>>,
                          <<TRUE, TRUE>>}, {10})]

ModeInit == InitWith(ModeDom, Stores({NoRec}), Tenants({Tenant(2, 1)}))

ModeNext == Deliver \/ \E p \in Procs : TenantStep(p)

ModeSpec == ModeInit /\ [][ModeNext]_vars

\* the ceiling of job i's tenant for the mode of job i: extract mode when the
\* job has is_extract set, crawl mode otherwise
CeilingOfJob(i) ==
  IF ~acuc[job[i].team_id].exists THEN 2
  ELSE IF job[i].is_extract THEN acuc[job[i].team_id].extract
  ELSE acuc[job[i].team_id].crawl

\* C31: the tenant ceiling read for an admission decision is the extract-mode
\* ceiling when the job has is_extract set and the crawl-mode ceiling otherwise,
\* in submit_one and in submit_many alike.
C31_AsStated ==
  [][\A p \in Procs :
       /\ (proc[p].pc = "tenant" /\ proc'[p].pc = "count")
            => proc'[p].maxInner = CeilingOfJob(proc[p].id)
       /\ (proc[p].pc = "btenant" /\ proc'[p].pc = "bcount")
            => \A i \in Range(OwnJobs(p)) :
                 proc'[p].maxInner = CeilingOfJob(i)]_vars

\* C32: submit_one requests a concurrency-limit notification only when the
\* verdict is DEFER_TENANT and the tenant's deferred backlog, read at that
\* moment, is greater than the tenant's ceiling, the value read for the
\* admission decision; a DEFER_CRAWL verdict never requests one.
C32_AsStated ==
  [][\A p \in Procs :
       proc[p].kind = "one"
         => /\ (proc[p].pc = "cqcount" /\ proc'[p].pc = "should")
                 => /\ hist[proc[p].id].verdict = "yes"
                    /\ Len(deferred[job[proc[p].id].team_id]) > proc[p].maxInner
            /\ (proc[p].pc = "should" /\ sendQ' # sendQ)
                 => hist[proc[p].id].verdict = "yes"
            /\ (proc[p].pc # "idle" /\ hist[proc[p].id].verdict = "yes-crawl")
                 => sendQ' = sendQ]_vars

(* -------------------- the order of the admit path --------------------- *)
\* C33: on the admit path the tenant's active entry, and the crawl's active entry
\* when lines 111-116 write one, are written before the job is added to the worker
\* queue: no job is in the worker queue without its active entry having been
\* written, no entry of a job is written once the job has been enqueued, and each
\* entry written expires 60 000 ms after the write.
C33_EntriesBeforeEnqueue ==
  [][/\ \A i \in DOMAIN job :
          /\ (i \notin bull /\ i \in bull')
               => /\ hist[i].pushes >= 1
                  /\ hist'[i].pushes = hist[i].pushes
                  /\ hist'[i].crawlPushes = hist[i].crawlPushes
                  /\ (job[i].crawl_id # NoCrawl
                        /\ WritesCrawlEntry(job[i], crawlStore[job[i].crawl_id]))
                       => hist[i].crawlPushes >= 1
          /\ hist'[i].pushes > hist[i].pushes
               => /\ i \notin bull
                  /\ <<i, now + 60000>> \in active'[job[i].team_id]
          /\ hist'[i].crawlPushes > hist[i].crawlPushes
               => /\ i \notin bull
                  /\ hist[i].pushes >= 1
                  /\ <<i, now + 60000>> \in crawlActive'[job[i].crawl_id]]_vars

\* a page job of a crawl is in the worker queue with both entries written
C33_Witness ==
  \E i \in DOMAIN job :
    /\ i \in bull
    /\ hist[i].pushes = 1
    /\ hist[i].crawlPushes = 1
    /\ \E e \in active[job[i].team_id] : e[1] = i
    /\ \E e \in crawlActive[job[i].crawl_id] : e[1] = i

(* ------------------------ the pair clean, count ----------------------- *)
\* the jobs of the call of p whose tenant is being decided
DecidedJobs(p) ==
  IF proc[p].pc = "count" THEN {proc[p].id}
  ELSE IF proc[p].pc = "bcount" THEN Range(proc[p].potential) \cup Range(proc[p].forced)
  ELSE {}

DecidedTeam(p) ==
  IF proc[p].pc = "count" THEN job[proc[p].id].team_id ELSE proc[p].team

\* C34: every admission decision at the tenant gate, single or bulk, calls
\* clean-expired for the tenant and then count-active with the same timestamp:
\* the count is reached from the clean only, the ledger it reads holds no entry
\* expired at that timestamp, its result is the number of entries alive at that
\* timestamp, and the call pushes no active entry between the two.
C34_CleanThenCount ==
  [][\A p \in Procs :
       /\ (proc'[p].pc = "count" /\ proc[p].pc # "count")
            => /\ proc[p].pc = "tenant"
               /\ active'[job[proc[p].id].team_id]
                    = {e \in active[job[proc[p].id].team_id] : e[2] > proc'[p].now}
       /\ (proc'[p].pc = "bcount" /\ proc[p].pc # "bcount")
            => /\ proc[p].pc = "btenant"
               /\ active'[proc[p].team]
                    = {e \in active[proc[p].team] : e[2] > proc'[p].now}
       /\ proc[p].pc \in {"count", "bcount"}
            => /\ \A i \in DecidedJobs(p) : hist'[i].pushes = hist[i].pushes
               /\ \A e \in active[DecidedTeam(p)] : e[2] > proc[p].now
       /\ (proc[p].pc = "count" /\ proc'[p] # proc[p])
            => hist'[proc[p].id].verdict =
                 IF Cardinality({e \in active[DecidedTeam(p)] : e[2] > proc[p].now})
                      >= proc[p].maxInner
                 THEN "yes" ELSE "no"
       /\ (proc[p].pc = "bcount" /\ proc'[p] # proc[p])
            => Cardinality({i \in Range(proc[p].potential) : hist'[i].verdict = "no"})
                 = Min(Len(proc[p].potential),
                       Max(proc[p].maxInner
                             - Cardinality({e \in active[DecidedTeam(p)] :
                                              e[2] > proc[p].now}), 0))]_vars

\* a decision was taken after its clean-expired had removed an expired entry
C34_Witness ==
  \E i, j \in DOMAIN job :
    /\ i < j
    /\ job[i].team_id = job[j].team_id
    /\ hist[i].pushes >= 1
    /\ \A e \in active[job[i].team_id] : e[1] # i
    /\ hist[j].tenantRead
    /\ hist[j].verdict = "no"

(* ----------------------------- the mirror ----------------------------- *)
\* MirrorSpec: one admitter submits scrapes of one tenant of ceiling 1, singly
\* and in batches, with and without the override; every job that reaches
\* _addScrapeJobToBullMQ may be mirrored, and the mirror may fail at its start
\* or later
MirrorDom ==
  [procs |-> {"p1"}, serial |-> TRUE, single |-> TRUE, jobs |-> MaxJobs,
   sizes |-> 1..MaxBatch, ticks |-> 0, direct |-> BOOLEAN,
   payloads |-> Payloads({"t1"}, {NoCrawl}, {"absent"}, {<<FALSE, FALSE>>}, {10}),
   mirror |-> {"none", "inflight", "nostart"}]

MirrorInit == InitWith(MirrorDom, Stores({NoRec}), Tenants({Tenant(1, 1)}))

MirrorNext ==
  \/ \E i \in DOMAIN mirror : MirrorSettle(i)
  \/ \E p \in Procs : TenantStep(p)

MirrorSpec == MirrorInit /\ [][MirrorNext]_vars

\* C35: the A/B mirror is never awaited by the admit path, its failure, at the
\* start or later, never changes whether or where the job is enqueued, and it is
\* never started for a job that is deferred: the answer or failure of a mirror
\* changes no call and nothing of the queues or the ledger, a step of a call
\* never changes a mirror already started, every job of a finished call is in
\* the worker queue exactly when its verdict (or the override) admitted it,
\* whatever became of its mirror, and a job that was parked has no mirror.
C35_MirrorIgnored ==
  [][/\ \A i \in DOMAIN mirror :
          /\ (mirror[i] # "none" /\ mirror'[i] # mirror[i])
               => /\ mirror[i] = "inflight"
                  /\ UNCHANGED <<proc, hist, job, deferred, active, crawlActive, bull,
                                 sendQ>>
          /\ (CallOver(i) /\ hist[i].ret # "error")
               => /\ (i \in bull) = (hist[i].verdict = "no" \/ hist[i].direct)
                  /\ (i \in DeferredIds) = (hist[i].verdict \in {"yes", "yes-crawl"})
          /\ (i \in DeferredIds \/ i \in DeferredIds') => mirror'[i] = "none"]_vars

\* a job is in the worker queue while its mirror is still in flight, and another
\* one whose mirror failed is there too
C35_Witness ==
  \E i, j \in DOMAIN mirror :
    /\ i \in bull /\ mirror[i] = "inflight" /\ CallOver(i)
    /\ j \in bull /\ mirror[j] \in {"failed", "nostart"} /\ CallOver(j)
    /\ DeferredIds # {}

(* ------------------------ serial submissions -------------------------- *)
\* no job handed out so far was submitted with the direct-to-worker override
NoOverrideSoFar == \A i \in DOMAIN job : i < nextId => ~hist[i].direct

\* C36: when the submissions of a tenant run one at a time, none uses the
\* direct-to-worker override and the tenant's record does not change, then after
\* any sequence of submit_one and submit_many calls the tenant's non-expired
\* Active-Job Entries never number more than the tenant's ceiling.
C36_SerialNeverExceeds ==
  (Admitters = 1 /\ dom.serial /\ NoOverrideSoFar)
    => \A t \in Teams : Cardinality(LiveOf(t)) <= TenantCeiling(t)

\* the tenant is at its ceiling after a single and a bulk submission, a further
\* job of it was parked, and no override was used
C36_Witness ==
  /\ Admitters = 1 /\ dom.serial /\ NoOverrideSoFar
  /\ \A p \in Procs : proc[p].pc = "idle"
  /\ \E t \in Teams :
       /\ Cardinality(LiveOf(t)) = TenantCeiling(t)
       /\ deferred[t] # <<>>
       /\ \E i, j \in DOMAIN job :
            /\ i < nextId /\ j < nextId
            /\ job[i].team_id = t /\ job[j].team_id = t
            /\ hist[i].bulk /\ ~hist[j].bulk
            /\ hist[i].verdict = "no" /\ hist[j].verdict = "no"

(* -------------------- the crawl gate and its entries ------------------ *)
\* GateSpec: one admitter, one call at a time, no override, no entry expires:
\* page jobs of crawl c1, with and without a delay in the payload, singly and in
\* batches; the crawl's record has a delay alone or a max_concurrency of 2
GateDom ==
  [procs |-> {"p1"}, serial |-> TRUE, single |-> TRUE, jobs |-> MaxJobs,
   sizes |-> 1..MaxBatch, ticks |-> 0, direct |-> {FALSE},
   payloads |-> Payloads({"t1"}, {"c1"}, {"absent", "delay"}, {<<FALSE, FALSE>>},
                         {10})]

GateInit ==
  \E rec \in {Rec(TRUE, FALSE, 0), Rec(FALSE, TRUE, 2)} :
    InitWith(GateDom, Stores({rec}), Tenants({Tenant(2, 2)}))

GateStep(p) ==
  \/ StartOne(p)
  \/ CrawlGate(p)
  \/ TenantClean(p)
  \/ TenantCount(p)
  \/ CQCount(p)
  \/ DeferOne(p)
  \/ StartMany(p)
  \/ BulkTeam(p)
  \/ BulkBucket(p)
  \/ BulkClean(p)
  \/ BulkCount(p)
  \/ BulkDefer(p)
  \/ AdmitPushActive(p)
  \/ AdmitCrawl(p)
  \/ AdmitEnqueue(p)

GateNext == \E p \in Procs : GateStep(p)

GateSpec == GateInit /\ [][GateNext]_vars

\* the jobs of crawl c that were admitted to the worker queue
AdmittedOfCrawl(c) == {i \in bull : job[i].crawl_id = c}

\* C37 as stated: when submissions run one at a time and no entry expires or
\* completes, the jobs of a crawl with a bounded ceiling (a record with a delay
\* or a max_concurrency) that were admitted to the worker queue never number
\* more than that ceiling, also when the payloads carry no delay.
C37_AsStated ==
  \A c \in CrawlIds :
    CrawlHasCeiling(c) => Cardinality(AdmittedOfCrawl(c)) <= CrawlCeiling(c)

(* ------------------------- where a job ends up ------------------------ *)
\* how often job i stands in the deferred area of tenant t
ParkedTimes(i, t) == Cardinality({k \in DOMAIN deferred[t] : deferred[t][k].id = i})

\* C38: after a submit_one or submit_many call that completes without error,
\* every submitted job is in exactly one of the worker queue and its tenant's
\* deferred area (none lost, none in both, none parked twice or with another
\* tenant), a tenant active entry was written for it if and only if it is in the
\* worker queue, and a deferral writes no active entry for any tenant or crawl.
C38_OnePlacePerJob ==
  [][/\ \A i \in DOMAIN job :
          (CallOver(i) /\ hist[i].ret # "error")
            => /\ (i \in bull) # (i \in DeferredIds)
               /\ i \in DeferredIds
                    => /\ ParkedTimes(i, job[i].team_id) = 1
                       /\ \A t \in Teams \ {job[i].team_id} : ParkedTimes(i, t) = 0
               /\ (hist[i].pushes >= 1) = (i \in bull)
               /\ (i \in DeferredIds)
                    => /\ hist[i].crawlPushes = 0
                       /\ \A t \in Teams : \A e \in active[t] : e[1] # i
                       /\ \A c \in CrawlIds : \A e \in crawlActive[c] : e[1] # i
     /\ deferred' # deferred => (active' = active /\ crawlActive' = crawlActive)]_vars

\* a finished batch has one job in the worker queue and one in the deferred
\* area, and a finished single submission was parked as well
C38_Witness ==
  \E i, j, k \in DOMAIN job :
    /\ CallOver(i) /\ CallOver(j) /\ CallOver(k)
    /\ hist[i].bulk /\ hist[j].bulk /\ ~hist[k].bulk
    /\ i \in bull /\ hist[i].pushes = 1
    /\ j \in DeferredIds /\ hist[j].pushes = 0
    /\ k \in DeferredIds /\ hist[k].pushes = 0

(* ------------------- the poll that finds the job ---------------------- *)
\* C39 as stated: wait raises the timeout-in-queue error only when no poll has
\* observed the job: a poll that finds the job in the worker queue goes on to the
\* completion race, also when it returns after the timeout has elapsed.
C39_AsStated ==
  [][\A w \in Waiters :
       (wait[w].pc = "sleep" /\ wait'[w] # wait[w] /\ wait[w].id \in bull)
         => /\ wait'[w].outcome # Raises(ScrapeJobTimeoutError(InQueueText))
            /\ wait'[w].pc = "race"]_vars

(* --------------- scrapeURLWithIndex (index.ts 213-278) ---------------- *)
Is2xx(x) == x.status >= 200 /\ x.status < 300

\* line 225: data.findIndex(x => x.status >= 200 && x.status < 300), counted
\* from 0, -1 when no row matches
findIndex2xx(data) ==
  IF \E k \in DOMAIN data : Is2xx(data[k])
  THEN (CHOOSE k \in DOMAIN data :
          Is2xx(data[k]) /\ \A m \in 1..(k - 1) : ~Is2xx(data[m])) - 1
  ELSE 0 - 1

\* lines 218-232: the row selected from the answer, NoRow for null
SelectRow(data) ==
  IF Len(data) > 0
  THEN LET newest200Index == findIndex2xx(data)
       IN  IF newest200Index >= errorCountToRegister \/ newest200Index = 0 - 1
           THEN data[1]
           ELSE data[newest200Index + 1]
  ELSE NoRow

IndexOutcome(kind, doc, at) == [kind |-> kind, doc |-> doc, created_at |-> at]

\* lines 218-236: select the row, an index miss when there is none
IndexSelect ==
  /\ lookup.pc = "select"
  /\ LET selectedRow == SelectRow(lookup.data)
     IN  lookup' =
           IF selectedRow = NoRow
           THEN [lookup EXCEPT !.pc = "done",
                               !.outcome = IndexOutcome("IndexMissError", 0, 0)]
           ELSE [lookup EXCEPT !.pc = "fetch", !.selectedRow = selectedRow]
  /\ UNCHANGED <<now, crawlStore, acuc, active, crawlActive, deferred, bull, job,
                 nextId, ticks, proc, lastSent, sendQ, emitted, dom, mirror, errlog,
                 waitVars, hist>>

\* lines 238-278: const id = data[0].id; the document stored under id is read
\* from the blob store (it may be missing, or be a PDF in the wrong form), and
\* returned with cacheInfo.created_at = data[0].created_at. The document stored
\* under an id is written as that id.
IndexFetch ==
  /\ lookup.pc = "fetch"
  /\ LET id == lookup.data[1].id
     IN  \E found \in BOOLEAN, pdfMismatch \in BOOLEAN :
           lookup' = [lookup EXCEPT
             !.pc = "done",
             !.outcome =
               IF ~found THEN IndexOutcome("EngineError", 0, 0)
               ELSE IF pdfMismatch THEN IndexOutcome("IndexMissError", 0, 0)
               ELSE IndexOutcome("return", id, lookup.data[1].created_at)]
  /\ UNCHANGED <<now, crawlStore, acuc, active, crawlActive, deferred, bull, job,
                 nextId, ticks, proc, lastSent, sendQ, emitted, dom, mirror, errlog,
                 waitVars, hist>>

\* IndexSpec: one lookup for every answer of the query: up to 5 rows, every
\* combination of statuses
IndexDom ==
  [procs |-> {}, serial |-> TRUE, single |-> FALSE, jobs |-> 1, sizes |-> {},
   ticks |-> 0, direct |-> {FALSE}, payloads |-> {}, rows |-> IndexAnswers]

IndexInit == InitWith(IndexDom, Stores({NoRec}), Tenants({NoTenant}))

IndexNext == IndexSelect \/ IndexFetch

IndexSpec == IndexInit /\ [][IndexNext]_vars

\* the row the lookup is to select: the newest 2xx row when it is among the
\* first 3 rows, otherwise the newest row
NewestGoodRows == {k \in 1..Min(3, Len(lookup.data)) : Is2xx(lookup.data[k])}

RowToSelect ==
  IF NewestGoodRows # {}
  THEN lookup.data[CHOOSE k \in NewestGoodRows : \A m \in NewestGoodRows : k <= m]
  ELSE lookup.data[1]

\* C40 as stated: the lookup returns the document stored for the selected row
\* (among the up to 5 newest rows, the newest 2xx row when it is among the first
\* 3, otherwise the newest row), and the cache timestamp of that same row.
C40_AsStated ==
  (lookup.pc = "done" /\ lookup.outcome.kind = "return")
    => /\ lookup.selectedRow = RowToSelect
       /\ lookup.outcome.doc = lookup.selectedRow.id
       /\ lookup.outcome.created_at = lookup.selectedRow.created_at

====
